---- MODULE Spec2Model ----
(***************************************************************************)
(* Model of the judge-based scoring pipeline of web-search-eval:           *)
(*   Scorer.callAIModel / parseAIResponse / calculateWeightedScore /       *)
(*   batchScore, BinaryScorer and FivePointScorer.batchScoreDimension /    *)
(*   parseOverallAIResponse, EvaluationManager.evaluateQuery /             *)
(*   evaluateEngineResults / calculateAverageScoresFromRepeats,            *)
(*   BatchTestManager.runBatchTest / executeTests / aggregateResults /     *)
(*   generateEngineRankings, SearchEngineManager.searchWithAllEngines and  *)
(*   the configuration checks of WebSearchEvaluationSystem.initialize.     *)
(*                                                                         *)
(* JavaScript numbers are modelled as exact fractions [n, d] in lowest     *)
(* terms with d > 0; the fraction 0/0 stands for NaN.  Binary rounding of  *)
(* IEEE doubles is modelled only in the statistics of SpecStats.           *)
(***************************************************************************)
EXTENDS Integers, Sequences, FiniteSets, TLC

VARIABLES
  \* ---- one judge call: callAIModel and the batchScoreDimension around it
  jpc,            \* position inside callAIModel / batchScoreDimension
  maxRetries,     \* the maxRetries argument of callAIModel
  attempt,        \* the loop variable of callAIModel
  httpLog,        \* what the call did so far: fetches, their outcome, waits
  jScale,         \* "binary" or "five_point": which scorer runs
  jContent,       \* choices[0].message.content the judge sends on success
  jRecord,        \* the ScoreRecord batchScoreDimension returned
  \* ---- calculateWeightedScore applied to one map of ScoreRecords
  cwDims,         \* this.dimensions of the scorer
  cwScores,       \* the scores argument
  cwResult,       \* the value returned
  \* ---- evaluateQuery
  pc,             \* position inside evaluateQuery
  searchResults,  \* the searchResults argument (one entry per provider)
  repeatTimes,    \* EvaluationManager.repeatTimes
  stub,           \* per provider: the outcomes the judge may produce
  engineIdx,      \* index of the provider the for loop is at
  round,          \* loop variable of evaluateEngineResults
  scaleIdx,       \* 1 = binary scorer, 2 = five_point scorer
  dimIdx,         \* index of the dimension batchScore is at
  dimensionScores,\* batchScore's dimensionScores object
  scores,         \* evaluation.scores of the provider under evaluation
  engines,        \* evaluationResults.engines
  summary,        \* evaluationResults.summary
  judgeCalls,     \* per provider: number of batchScoreDimension invocations
  judgeOutcomes,  \* how the judge calls of the running batchScore ended
  \* ---- BatchTestManager.runBatchTest
  bpc,            \* position inside runBatchTest
  cfgRepeat,      \* config.evaluation.repeat_times (0: not set)
  optRepeat,      \* options.repeatTimes of runBatchEvaluation (0: not set)
  queries,        \* the queries argument of executeTests
  enabled,        \* names of the enabled providers, in engine order
  cellMenu,       \* per provider: what may happen to it in one cell
  batchRepeatTimes,\* BatchTestManager.repeatTimes
  bRound,         \* loop variable round of executeTests
  queryIndex,     \* loop variable i of executeTests, counted from 1
  roundResults,   \* roundResults of the running round
  allTestResults, \* allTestResults
  thrownCells,    \* the (round, query index) cells whose try block threw
  finalReport,    \* what generateFinalReport returned
  \* ---- the statistics of aggregateResults on one sample of doubles
  sample,         \* stats.scores[scoringType]
  statistics,     \* the average_scores and score_stability entries
  \* ---- WebSearchEvaluationSystem
  configFile,     \* what the configuration file holds
  config,         \* this.config: "null" or "loaded"
  managers,       \* how many of the three managers initialize constructed
  initialized,    \* outcome of the last initialize call
  lastCall,       \* outcome of the last evaluateSingleQuery / runBatchEvaluation
  searchCalls,    \* provider searches issued so far
  judgeRequests,  \* judge calls issued so far
  \* ---- the schedule of a batch run: searches, judge calls, delays
  options,        \* options of executeTests: delayMs, roundDelayMs (0: not set)
  searchPromises, \* searchPromises of the running cell: pending or settled
  invoked,        \* (round, scorer, dimension) of the batchScoreDimension
                  \* invocations of the running provider evaluation
  cellLog         \* the cells executeTests started and the delays it
                  \* waited, in the order they happened

judgeVars == <<jpc, maxRetries, attempt, httpLog, jScale, jContent, jRecord>>
cwVars    == <<cwDims, cwScores, cwResult>>
evalVars  == <<pc, searchResults, repeatTimes, stub, engineIdx, round,
               scaleIdx, dimIdx, dimensionScores, scores, engines, summary,
               judgeCalls, judgeOutcomes>>
batchVars == <<bpc, cfgRepeat, optRepeat, queries, enabled, cellMenu,
               batchRepeatTimes, bRound, queryIndex, roundResults,
               allTestResults, thrownCells, finalReport>>
statVars  == <<sample, statistics>>
sysVars   == <<configFile, config, managers, initialized, lastCall,
               searchCalls, judgeRequests>>
runVars   == <<options, searchPromises, invoked, cellLog>>
vars      == <<judgeVars, cwVars, evalVars, batchVars, statVars, sysVars,
               runVars>>

-----------------------------------------------------------------------------
(* Bounds of the model *)

MaxRetriesArg == 4      \* callAIModel is explored for maxRetries in 1..MaxRetriesArg
MaxSegs == 2            \* a judge response has at most MaxSegs segments

(* Program constants *)

DefaultMaxRetries == 3  \* callAIModel(prompt, maxRetries = 3)
BackoffUnitMs == 1000   \* setTimeout(resolve, 1000 * attempt)

-----------------------------------------------------------------------------
(* JavaScript numbers as exact fractions *)

Abs(x) == IF x < 0 THEN -x ELSE x

RECURSIVE GCD(_, _)
GCD(a, b) == IF b = 0 THEN a ELSE GCD(b, a % b)

NaN == [n |-> 0, d |-> 0]
IsNaN(q) == q.d = 0

Norm(n, d) ==
  IF d = 0 THEN NaN
  ELSE LET g == GCD(Abs(n), Abs(d))
           s == IF d < 0 THEN -1 ELSE 1
       IN  [n |-> (s * n) \div g, d |-> (s * d) \div g]

Num(i) == [n |-> i, d |-> 1]
IsInt(q) == q.d = 1

RatAdd(a, b) ==
  IF IsNaN(a) \/ IsNaN(b) THEN NaN ELSE Norm(a.n * b.d + b.n * a.d, a.d * b.d)
RatMul(a, b) ==
  IF IsNaN(a) \/ IsNaN(b) THEN NaN ELSE Norm(a.n * b.n, a.d * b.d)
\* a / b for b # 0 (the code only divides by positive weights and counts)
RatDiv(a, b) ==
  IF IsNaN(a) \/ IsNaN(b) THEN NaN ELSE Norm(a.n * b.d, a.d * b.n)
\* comparisons with NaN are false, as in JavaScript
RatLT(a, b) == ~IsNaN(a) /\ ~IsNaN(b) /\ a.n * b.d < b.n * a.d
RatLE(a, b) == ~IsNaN(a) /\ ~IsNaN(b) /\ a.n * b.d <= b.n * a.d
RatGT(a, b) == RatLT(b, a)

\* Math.round: nearest integer, halves towards +Infinity; NaN stays NaN
MathRound(q) ==
  IF IsNaN(q) THEN NaN ELSE Num((2 * q.n + q.d) \div (2 * q.d))
\* Math.min / Math.max: NaN if either argument is NaN
MathMin(a, b) ==
  IF IsNaN(a) \/ IsNaN(b) THEN NaN ELSE IF RatLE(a, b) THEN a ELSE b
MathMax(a, b) ==
  IF IsNaN(a) \/ IsNaN(b) THEN NaN ELSE IF RatLE(a, b) THEN b ELSE a

-----------------------------------------------------------------------------
(* Judge responses.                                                        *)
(* The text the judge returns is a whitespace-separated sequence of        *)
(* segments.  A number literal is written as ten times its value, so 26    *)
(* is the text "2.6" and 70 the text "7"; a literal is a digit-only        *)
(* integer literal iff it is a multiple of 10.                             *)
(*   word     text without digits, braces, tags or score keywords          *)
(*   kw       one of the score keywords matched by parseOverallAIResponse  *)
(*   num      a number literal                                             *)
(*   json     a JSON object {"score": .., "reasoning": ".."}; its score is *)
(*            a number, a non-numeric string, or absent                    *)
(*   badjson  {...} that is not valid JSON, without digits                 *)
(*   tag      <result>inner</result>; inner is a bare literal, a literal   *)
(*            with text or spaces around it, a JSON object or a word       *)
(***************************************************************************)

Literals == {0, 10, 26, 70}

JsonScores ==
  [k : {"num"}, v : {40, -10}] \cup [k : {"str", "undef"}, v : {0}]

Inners ==
  [t : {"bare"}, v : Literals] \cup [t : {"padded"}, v : {10}]
    \cup [t : {"json"}, score : JsonScores] \cup [t : {"word"}]

Segments ==
  [t : {"word", "kw", "badjson"}] \cup [t : {"num"}, v : {10, 70}]
    \cup [t : {"json"}, score : JsonScores] \cup [t : {"tag"}, inner : Inners]

Responses == UNION {[1..n -> Segments] : n \in 0..MaxSegs}

\* a value read from parsed JSON or produced by parseFloat / parseInt
JsNum(q) == [k |-> "num", q |-> q]
JsStr    == [k |-> "str", q |-> NaN]      \* a non-numeric string
JsUndef  == [k |-> "undef", q |-> NaN]
JsOfJson(s) == IF s.k = "num" THEN JsNum(Norm(s.v, 10))
               ELSE IF s.k = "str" THEN JsStr ELSE JsUndef
\* x || dflt
OrElse(x, dflt) ==
  IF x.k = "undef" \/ (x.k = "num" /\ (IsNaN(x.q) \/ x.q.n = 0)) THEN dflt ELSE x
\* the implicit ToNumber of Math.round
ToNumber(x) == IF x.k = "num" THEN x.q ELSE NaN

\* reasoning texts are kept by their origin; "empty" is the empty string
Raw(resp) == IF resp = <<>> THEN "empty" ELSE "raw"
OrText(r, alt) == IF r = "empty" THEN alt ELSE r

Min(S) == CHOOSE x \in S : \A y \in S : x <= y

\* does the inner text of a tag contain digits, and which number comes first
InnerHasNumber(inner) ==
  \/ inner.t \in {"bare", "padded"}
  \/ inner.t = "json" /\ inner.score.k = "num"
InnerNumber(inner) ==
  IF inner.t = "json" THEN Abs(inner.score.v) ELSE inner.v

SegHasNumber(s) ==
  \/ s.t = "num"
  \/ s.t = "json" /\ s.score.k = "num"
  \/ s.t = "tag" /\ InnerHasNumber(s.inner)
SegNumber(s) ==
  IF s.t = "num" THEN s.v
  ELSE IF s.t = "json" THEN Abs(s.score.v) ELSE InnerNumber(s.inner)

SegHasBrace(s) ==
  \/ s.t \in {"json", "badjson"}
  \/ s.t = "tag" /\ s.inner.t = "json"
SegJson(s) == IF s.t = "json" THEN s.score ELSE s.inner.score

\* the object parseAIResponse returns in its catch block
ParseError(resp) ==
  [score |-> JsNum(Num(0)), reasoning |-> Raw(resp), error |-> TRUE]

\* the object JSON.parse returns for a JSON segment
JsonObject(s) == [score |-> JsOfJson(s), reasoning |-> "json", error |-> FALSE]

\* Scorer.parseAIResponse
parseAIResponse(resp) ==
  LET tags    == {i \in DOMAIN resp : resp[i].t = "tag"}
      braces  == {i \in DOMAIN resp : SegHasBrace(resp[i])}
      numbers == {i \in DOMAIN resp : SegHasNumber(resp[i])}
      \* from "尝试提取JSON格式的响应" on: /\{[\s\S]*\}/ spans from the first
      \* opening to the last closing brace, then the first number, then throw
      rest ==
        IF braces # {}
        THEN IF Cardinality(braces) = 1 /\ resp[Min(braces)].t # "badjson"
             THEN JsonObject(SegJson(resp[Min(braces)]))
             ELSE ParseError(resp)
        ELSE IF numbers # {}
        THEN [score |-> JsNum(Norm(SegNumber(resp[Min(numbers)]), 10)),
              reasoning |-> Raw(resp), error |-> FALSE]
        ELSE ParseError(resp)
  IN  IF tags # {}
      THEN LET inner == resp[Min(tags)].inner
           IN  IF InnerHasNumber(inner)
               THEN [score |-> JsNum(Norm(InnerNumber(inner), 10)),
                     reasoning |-> Raw(resp), error |-> FALSE]
               ELSE IF inner.t = "json"
               THEN JsonObject(inner.score)
               ELSE rest
      ELSE rest

\* the default score of a scale: BinaryScorer uses 0, FivePointScorer 1
ScaleMin(scale) == IF scale = "binary" THEN 0 ELSE 1
ScaleMax(scale) == IF scale = "binary" THEN 2 ELSE 5

\* BinaryScorer.parseOverallAIResponse / FivePointScorer.parseOverallAIResponse
parseOverallAIResponse(resp, scale) ==
  LET intTags == {i \in DOMAIN resp :
                    /\ resp[i].t = "tag"
                    /\ resp[i].inner.t = "bare"
                    /\ resp[i].inner.v % 10 = 0}
      parsed  == parseAIResponse(resp)
      kws     == {i \in DOMAIN resp : resp[i].t = "kw"}
      after   == {j \in DOMAIN resp :
                    kws # {} /\ j > Min(kws) /\ SegHasNumber(resp[j])}
  IN  IF intTags # {}
      THEN [score |-> JsNum(Num(resp[Min(intTags)].inner.v \div 10)),
            \* content.replace(/<result>.*?<\/result>/, '').trim()
            reasoning |-> IF Len(resp) = 1 THEN "empty" ELSE "stripped"]
      ELSE IF parsed.score.k # "undef"
      THEN [score |-> parsed.score,
            reasoning |-> OrText(parsed.reasoning, Raw(resp))]
      ELSE IF after # {}
      THEN [score |-> JsNum(Num(SegNumber(resp[Min(after)]) \div 10)),
            reasoning |-> Raw(resp)]
      ELSE [score |-> JsNum(Num(ScaleMin(scale))), reasoning |-> "failmsg"]

\* BinaryScorer.batchScoreDimension / FivePointScorer.batchScoreDimension,
\* from the point where callAIModel has returned the response
batchScoreDimension(resp, scale) ==
  LET parsedResult == parseOverallAIResponse(resp, scale)
      raw   == OrElse(parsedResult.score, JsNum(Num(ScaleMin(scale))))
      score == MathMax(Num(ScaleMin(scale)),
                       MathMin(Num(ScaleMax(scale)), MathRound(ToNumber(raw))))
  IN  [score |-> score,
       reasoning |-> OrText(parsedResult.reasoning, "default"),
       scoringSystem |-> scale,
       error |-> FALSE]

-----------------------------------------------------------------------------
(* Values of the variables a specification does not use *)

JudgeIdle ==
  /\ jpc = "idle" /\ maxRetries = DefaultMaxRetries /\ attempt = 1
  /\ httpLog = <<>> /\ jScale = "binary" /\ jContent = <<>>
  /\ jRecord = [score |-> NaN, reasoning |-> "empty",
                scoringSystem |-> "binary", error |-> FALSE]

CwIdle == cwDims = <<>> /\ cwScores = <<>> /\ cwResult = NaN

EvalIdle ==
  /\ pc = "idle" /\ searchResults = <<>> /\ repeatTimes = 1 /\ stub = <<>>
  /\ engineIdx = 1 /\ round = 1 /\ scaleIdx = 1 /\ dimIdx = 1
  /\ dimensionScores = <<>> /\ scores = <<>> /\ engines = <<>>
  /\ summary = <<>> /\ judgeCalls = <<>> /\ judgeOutcomes = <<>>

BatchIdle ==
  /\ bpc = "idle" /\ cfgRepeat = 0 /\ optRepeat = 0 /\ queries = <<>>
  /\ enabled = <<>> /\ cellMenu = <<>> /\ batchRepeatTimes = 1
  /\ bRound = 1 /\ queryIndex = 1 /\ roundResults = <<>>
  /\ allTestResults = <<>> /\ thrownCells = {} /\ finalReport = <<>>

StatIdle == sample = <<>> /\ statistics = <<>>

SysIdle ==
  /\ configFile = <<>> /\ config = <<>> /\ managers = 0
  /\ initialized = "idle" /\ lastCall = "idle"
  /\ searchCalls = 0 /\ judgeRequests = 0

RunIdle ==
  /\ options = <<>> /\ searchPromises = <<>> /\ invoked = <<>>
  /\ cellLog = <<>>

-----------------------------------------------------------------------------
(* One judge call: Scorer.callAIModel, called with any maxRetries, and the *)
(* batchScoreDimension around it, which always passes the default.         *)

Scales == <<"binary", "five_point">>

InitJudge ==
  /\ jpc = "loop"
  /\ maxRetries \in 0..MaxRetriesArg
  /\ attempt = 1
  /\ httpLog = <<>>
  /\ jScale \in {Scales[i] : i \in DOMAIN Scales}
  /\ jContent \in Responses
  /\ jRecord = [score |-> NaN, reasoning |-> "empty",
                scoringSystem |-> jScale, error |-> FALSE]
  /\ CwIdle /\ EvalIdle /\ BatchIdle /\ StatIdle /\ SysIdle /\ RunIdle

Ev(e, k) == [ev |-> e, k |-> k]

\* for (let attempt = 1; attempt <= maxRetries; attempt++): the loop test,
\* and the fetch the body issues
CallLoop ==
  /\ jpc = "loop"
  /\ IF attempt <= maxRetries
     THEN /\ jpc' = "fetch"
          /\ httpLog' = Append(httpLog, Ev("fetch", attempt))
     ELSE /\ jpc' = "fellThrough"       \* the function ends without a return
          /\ UNCHANGED httpLog
  /\ UNCHANGED <<maxRetries, attempt, jScale, jContent, jRecord, cwVars, evalVars,
                 batchVars, statVars, sysVars,
                 runVars>>

\* the fetch resolves with response.ok and a JSON body: return data
HttpOk ==
  /\ jpc = "fetch"
  /\ httpLog' = Append(httpLog, Ev("ok", attempt))
  /\ jpc' = "returned"
  /\ UNCHANGED <<maxRetries, attempt, jScale, jContent, jRecord, cwVars, evalVars,
                 batchVars, statVars, sysVars,
                 runVars>>

\* variant: the backoff does not grow with the attempt number
HttpFail_FixedBackoff ==
  /\ jpc = "fetch"
  /\ IF attempt = maxRetries
     THEN /\ jpc' = "thrown"
          /\ httpLog' = Append(httpLog, Ev("fail", attempt))
     ELSE /\ jpc' = "backoff"
          /\ httpLog' = httpLog \o <<Ev("fail", attempt), Ev("wait", BackoffUnitMs)>>
  /\ UNCHANGED <<maxRetries, attempt, jScale, jContent, jRecord, cwVars, evalVars,
                 batchVars, statVars, sysVars,
                 runVars>>

\* the fetch rejects, or the status is not ok, or the body is not JSON: the
\* catch block throws on the last attempt and starts the backoff otherwise
HttpFail ==
  /\ jpc = "fetch"
  /\ IF attempt = maxRetries
     THEN /\ jpc' = "thrown"
          /\ httpLog' = Append(httpLog, Ev("fail", attempt))
     ELSE /\ jpc' = "backoff"
          /\ httpLog' = httpLog \o <<Ev("fail", attempt),
                                      Ev("wait", BackoffUnitMs * attempt)>>
  /\ UNCHANGED <<maxRetries, attempt, jScale, jContent, jRecord, cwVars, evalVars,
                 batchVars, statVars, sysVars,
                 runVars>>

\* the backoff timer fires: attempt++
BackoffElapsed ==
  /\ jpc = "backoff"
  /\ attempt' = attempt + 1
  /\ jpc' = "loop"
  /\ UNCHANGED <<maxRetries, httpLog, jScale, jContent, jRecord, cwVars, evalVars,
                 batchVars, statVars, sysVars,
                 runVars>>

\* batchScoreDimension after callAIModel(prompt) returned
DimensionScored ==
  /\ jpc = "returned"
  /\ maxRetries = DefaultMaxRetries
  /\ jRecord' = batchScoreDimension(jContent, jScale)
  /\ jpc' = "scored"
  /\ UNCHANGED <<maxRetries, attempt, httpLog, jScale, jContent, cwVars, evalVars,
                 batchVars, statVars, sysVars,
                 runVars>>

\* batchScoreDimension after callAIModel(prompt) threw: it throws again
DimensionThrown ==
  /\ jpc = "thrown"
  /\ maxRetries = DefaultMaxRetries
  /\ jpc' = "dimThrown"
  /\ UNCHANGED <<maxRetries, attempt, httpLog, jScale, jContent, jRecord,
                 cwVars, evalVars,
                 batchVars, statVars, sysVars,
                 runVars>>

NextJudge ==
  \/ CallLoop \/ HttpOk \/ HttpFail \/ BackoffElapsed
  \/ DimensionScored \/ DimensionThrown

SpecJudge == InitJudge /\ [][NextJudge]_vars

-----------------------------------------------------------------------------
(* Scorer.calculateWeightedScore.  dims is this.dimensions, a sequence of  *)
(* [name, weight]; scores maps some dimension names to ScoreRecords.       *)

Names(dims) == {dims[i].name : i \in DOMAIN dims}

RECURSIVE WeightedTotals_IgnoreErrorFlag(_, _, _, _, _)
\* variant: a record counts whether or not its error flag is set
WeightedTotals_IgnoreErrorFlag(dims, sc, i, totalScore, totalWeight) ==
  IF i > Len(dims) THEN <<totalScore, totalWeight>>
  ELSE LET dimension == dims[i]
       IN  IF dimension.name \in DOMAIN sc
           THEN WeightedTotals_IgnoreErrorFlag(dims, sc, i + 1,
                  RatAdd(totalScore,
                         RatMul(sc[dimension.name].score, dimension.weight)),
                  RatAdd(totalWeight, dimension.weight))
           ELSE WeightedTotals_IgnoreErrorFlag(dims, sc, i + 1, totalScore, totalWeight)

RECURSIVE WeightedTotals(_, _, _, _, _)
\* the for loop: <<totalScore, totalWeight>> after dimensions i..Len(dims)
WeightedTotals(dims, sc, i, totalScore, totalWeight) ==
  IF i > Len(dims) THEN <<totalScore, totalWeight>>
  ELSE LET dimension == dims[i]
       IN  IF dimension.name \in DOMAIN sc /\ ~sc[dimension.name].error
           THEN WeightedTotals(dims, sc, i + 1,
                  RatAdd(totalScore,
                         RatMul(sc[dimension.name].score, dimension.weight)),
                  RatAdd(totalWeight, dimension.weight))
           ELSE WeightedTotals(dims, sc, i + 1, totalScore, totalWeight)

\* variant: the denominator is the weight of all configured dimensions
calculateWeightedScore_AllWeights(dims, sc) ==
  LET t == WeightedTotals(dims, sc, 1, Num(0), Num(0))
      all == WeightedTotals(dims, [n \in Names(dims) |-> [score |-> Num(0), error |-> FALSE]],
                            1, Num(0), Num(0))
  IN  IF RatGT(t[2], Num(0)) THEN RatDiv(t[1], all[2]) ELSE Num(0)

calculateWeightedScore(dims, sc) ==
  LET t == WeightedTotals(dims, sc, 1, Num(0), Num(0))
  IN  IF RatGT(t[2], Num(0)) THEN RatDiv(t[1], t[2]) ELSE Num(0)

Dim(name, percent) == [name |-> name, weight |-> Norm(percent, 100)]

\* dimension lists whose weights are positive and sum to 1.0
CombineConfigs ==
  { <<Dim("relevance", 100)>>,
    <<Dim("relevance", 70), Dim("authority", 30)>>,
    <<Dim("relevance", 50), Dim("authority", 30), Dim("freshness", 20)>> }

CombineRecords == [score : {Num(0), Num(2), Num(5), NaN}, error : BOOLEAN]

InitCombine ==
  /\ cwDims \in CombineConfigs
  /\ cwScores \in UNION {[S -> CombineRecords] : S \in SUBSET Names(cwDims)}
  /\ cwResult = <<>>
  /\ JudgeIdle /\ EvalIdle /\ BatchIdle /\ StatIdle /\ SysIdle /\ RunIdle

Combine ==
  /\ cwResult = <<>>
  /\ cwResult' = <<calculateWeightedScore(cwDims, cwScores)>>
  /\ UNCHANGED <<cwDims, cwScores, judgeVars, evalVars,
                 batchVars, statVars, sysVars,
                 runVars>>

NextCombine == Combine

SpecCombine == InitCombine /\ [][NextCombine]_vars

-----------------------------------------------------------------------------
(* EvaluationManager.evaluateQuery for one query.                          *)

MaxEngines == 2         \* providers in searchResults
MaxRepeat == 2          \* config.evaluation.repeat_times is in 1..MaxRepeat

EngineNames == <<"zhipu", "serper", "jina", "quark">>

\* config.evaluation.dimensions of the evaluated configuration
Dimensions == <<Dim("relevance", 70), Dim("authority", 30)>>

\* what one judge call of batchScoreDimension can end in: callAIModel throws
\* after its last attempt, or it returns a response with this content
Throw == [ok |-> FALSE, content |-> <<>>]
Reply(resp) == [ok |-> TRUE, content |-> resp]
LowReply  == Reply(<<[t |-> "word"]>>)
HighReply == Reply(<<[t |-> "tag", inner |-> [t |-> "bare", v |-> 70]]>>)
FullMenu == {Throw, LowReply, HighReply}
FixedMenus == {{Throw}, {LowReply}, {HighReply}}

\* a provider's entry in searchResults: a result list, the error entry
\* searchWithAllEngines builds, or an entry without a results array
SearchKinds == {"ok", "error", "noResults"}

InitEval ==
  /\ pc = "engine"
  /\ \E n \in 1..MaxEngines :
       /\ searchResults \in
            {[i \in 1..n |-> [engine |-> EngineNames[i], kind |-> k[i]]] :
               k \in [1..n -> SearchKinds]}
       /\ stub \in IF n = 1 THEN {<<FullMenu>>} ELSE [1..n -> FixedMenus]
       /\ judgeCalls = [i \in 1..n |-> 0]
  /\ repeatTimes \in 1..MaxRepeat
  /\ engineIdx = 1 /\ round = 1 /\ scaleIdx = 1 /\ dimIdx = 1
  /\ dimensionScores = <<>>
  /\ scores = <<>>
  /\ engines = <<>>
  /\ summary = <<>>
  /\ judgeOutcomes = <<>>
  /\ JudgeIdle /\ CwIdle /\ BatchIdle /\ StatIdle /\ SysIdle /\ RunIdle

\* the entry evaluateQuery stores for a provider it did not evaluate
ErrorEntry(name) == [engine |-> name, error |-> TRUE]

\* the record batchScore's catch block stores for a dimension
ErrorRecord(name) ==
  [score |-> Num(0), reasoning |-> "callfail", dimension |-> name, error |-> TRUE]

\* a ScoreRecord of batchScoreDimension, with its dimension
Scored(rec, name) ==
  [score |-> rec.score, reasoning |-> rec.reasoning, dimension |-> name,
   scoringSystem |-> rec.scoringSystem, error |-> rec.error]

\* variant: break instead of continue after a failed provider
SkipFailedEngine_Break ==
  /\ pc = "engine"
  /\ engineIdx <= Len(searchResults)
  /\ searchResults[engineIdx].kind = "error"
  /\ engines' = Append(engines, ErrorEntry(searchResults[engineIdx].engine))
  /\ engineIdx' = Len(searchResults) + 1
  /\ UNCHANGED <<pc, searchResults, repeatTimes, stub, round, scaleIdx, dimIdx,
                 dimensionScores, scores, summary, judgeCalls, judgeOutcomes,
                 judgeVars, cwVars,
                 batchVars, statVars, sysVars,
                 runVars>>

\* for (const engineResult of searchResults): engineResult.error is set
SkipFailedEngine ==
  /\ pc = "engine"
  /\ engineIdx <= Len(searchResults)
  /\ searchResults[engineIdx].kind = "error"
  /\ engines' = Append(engines, ErrorEntry(searchResults[engineIdx].engine))
  /\ engineIdx' = engineIdx + 1
  /\ UNCHANGED <<pc, searchResults, repeatTimes, stub, round, scaleIdx, dimIdx,
                 dimensionScores, scores, summary, judgeCalls, judgeOutcomes,
                 judgeVars, cwVars,
                 batchVars, statVars, sysVars,
                 runVars>>

\* evaluateEngineResults throws at engineResult.results.length and the catch
\* block of evaluateQuery stores an error entry
EngineThrows ==
  /\ pc = "engine"
  /\ engineIdx <= Len(searchResults)
  /\ searchResults[engineIdx].kind = "noResults"
  /\ engines' = Append(engines, ErrorEntry(searchResults[engineIdx].engine))
  /\ engineIdx' = engineIdx + 1
  /\ UNCHANGED <<pc, searchResults, repeatTimes, stub, round, scaleIdx, dimIdx,
                 dimensionScores, scores, summary, judgeCalls, judgeOutcomes,
                 judgeVars, cwVars,
                 batchVars, statVars, sysVars,
                 runVars>>

\* evaluateEngineResults up to the first judge call of round 1
StartEngine ==
  /\ pc = "engine"
  /\ engineIdx <= Len(searchResults)
  /\ searchResults[engineIdx].kind = "ok"
  /\ scores' = [binary |-> <<>>, five_point |-> <<>>]
  /\ round' = 1 /\ scaleIdx' = 1 /\ dimIdx' = 1
  /\ dimensionScores' = <<>>
  /\ judgeOutcomes' = <<>>
  /\ pc' = "dimension"
  /\ UNCHANGED <<searchResults, repeatTimes, stub, engineIdx, engines, summary,
                 judgeCalls, judgeVars, cwVars,
                 batchVars, statVars, sysVars,
                 runVars>>

\* what batchScore returns, spread into the entry evaluateEngineResults pushes
RoundEntry(r, overallScores) ==
  [round |-> r,
   overallScores |-> overallScores,
   weightedScore |-> calculateWeightedScore(Dimensions, overallScores)]

PushRound(sc, scale, entry) ==
  IF scale = "binary" THEN [sc EXCEPT !.binary = Append(@, entry)]
  ELSE [sc EXCEPT !.five_point = Append(@, entry)]

\* variant: no try/catch around batchScoreDimension, so a failed judge call
\* leaves batchScore and evaluateEngineResults records a failed round
ScoreDimension_NoCatch ==
  /\ pc = "dimension"
  /\ \E o \in stub[engineIdx] :
       LET name == Dimensions[dimIdx].name
       IN  IF o.ok
           THEN /\ dimensionScores' = (name :>
                     Scored(batchScoreDimension(o.content, Scales[scaleIdx]), name))
                       @@ dimensionScores
                /\ judgeOutcomes' = Append(judgeOutcomes, TRUE)
                /\ IF dimIdx < Len(Dimensions)
                   THEN dimIdx' = dimIdx + 1 /\ pc' = "dimension"
                   ELSE dimIdx' = dimIdx /\ pc' = "roundEnd"
                /\ UNCHANGED <<scores, round, scaleIdx>>
           ELSE /\ scores' = PushRound(scores, Scales[scaleIdx],
                                       [round |-> round, error |-> TRUE])
                /\ dimensionScores' = <<>>
                /\ judgeOutcomes' = <<>>
                /\ dimIdx' = 1
                /\ IF scaleIdx < Len(Scales)
                   THEN scaleIdx' = scaleIdx + 1 /\ round' = round /\ pc' = "dimension"
                   ELSE IF round < repeatTimes
                   THEN scaleIdx' = 1 /\ round' = round + 1 /\ pc' = "dimension"
                   ELSE scaleIdx' = 1 /\ round' = round /\ pc' = "engineEnd"
  /\ judgeCalls' = [judgeCalls EXCEPT ![engineIdx] = @ + 1]
  /\ UNCHANGED <<searchResults, repeatTimes, stub, engineIdx, engines, summary,
                 judgeVars, cwVars,
                 batchVars, statVars, sysVars,
                 runVars>>

\* one iteration of batchScore's loop over this.dimensions: the try block
\* with batchScoreDimension, or the catch block when that threw
ScoreDimension ==
  /\ pc = "dimension"
  /\ \E o \in stub[engineIdx] :
       LET name == Dimensions[dimIdx].name
           rec  == IF o.ok
                   THEN Scored(batchScoreDimension(o.content, Scales[scaleIdx]), name)
                   ELSE ErrorRecord(name)
       IN  /\ dimensionScores' = (name :> rec) @@ dimensionScores
           /\ judgeOutcomes' = Append(judgeOutcomes, o.ok)
  /\ judgeCalls' = [judgeCalls EXCEPT ![engineIdx] = @ + 1]
  /\ IF dimIdx < Len(Dimensions)
     THEN dimIdx' = dimIdx + 1 /\ pc' = "dimension"
     ELSE dimIdx' = dimIdx /\ pc' = "roundEnd"
  /\ UNCHANGED <<searchResults, repeatTimes, stub, engineIdx, round, scaleIdx,
                 scores, engines, summary, judgeVars, cwVars,
                 batchVars, statVars, sysVars,
                 runVars>>

\* the end of batchScore, the push in evaluateEngineResults, and the step to
\* the next scorer or the next round
FinishRound ==
  /\ pc = "roundEnd"
  /\ scores' = PushRound(scores, Scales[scaleIdx], RoundEntry(round, dimensionScores))
  /\ dimensionScores' = <<>>
  /\ judgeOutcomes' = <<>>
  /\ dimIdx' = 1
  /\ IF scaleIdx < Len(Scales)
     THEN scaleIdx' = scaleIdx + 1 /\ round' = round /\ pc' = "dimension"
     ELSE IF round < repeatTimes
     THEN scaleIdx' = 1 /\ round' = round + 1 /\ pc' = "dimension"
     ELSE scaleIdx' = 1 /\ round' = round /\ pc' = "engineEnd"
  /\ UNCHANGED <<searchResults, repeatTimes, stub, engineIdx, engines, summary,
                 judgeCalls, judgeVars, cwVars,
                 batchVars, statVars, sysVars,
                 runVars>>

-----------------------------------------------------------------------------
(* EvaluationManager.calculateAverageScoresFromRepeats *)

RECURSIVE SumSeq(_)
SumSeq(q) == IF q = <<>> THEN Num(0) ELSE RatAdd(Head(q), SumSeq(Tail(q)))

\* seq.reduce((sum, x) => sum + x, 0) / seq.length
Average(q) == RatDiv(SumSeq(q), Num(Len(q)))

\* variant: round => !round.error && round.weightedScore (0 is falsy)
IsValidRound_Truthy(r) ==
  /\ ~("error" \in DOMAIN r)
  /\ "weightedScore" \in DOMAIN r
  /\ r.weightedScore # Num(0)

\* round => !round.error && round.weightedScore !== undefined
IsValidRound(r) == ~("error" \in DOMAIN r) /\ "weightedScore" \in DOMAIN r

\* the scores the inner forEach collects for one dimension: those of the
\* valid rounds that have round.scores[dimension.name].score
RECURSIVE DimensionScoresOf(_, _)
DimensionScoresOf(validRounds, name) ==
  IF validRounds = <<>> THEN <<>>
  ELSE LET r == Head(validRounds)
           here == IF "scores" \in DOMAIN r /\ name \in DOMAIN r.scores
                   THEN <<r.scores[name].score>> ELSE <<>>
       IN  here \o DimensionScoresOf(Tail(validRounds), name)

AverageOfScale(rounds) ==
  LET validRounds == SelectSeq(rounds, IsValidRound)
      withScores  == {n \in Names(Dimensions) :
                        DimensionScoresOf(validRounds, n) # <<>>}
  IN  [dimensions |-> IF validRounds = <<>> THEN <<>>
                      ELSE [n \in withScores |->
                              Average(DimensionScoresOf(validRounds, n))],
       weighted |-> IF validRounds = <<>> THEN Num(0)
                    ELSE Average([i \in DOMAIN validRounds |->
                                    validRounds[i].weightedScore]),
       rounds |-> [i \in DOMAIN validRounds |->
                     [round |-> validRounds[i].round,
                      weighted |-> validRounds[i].weightedScore]],
       totalRounds |-> Len(rounds),
       validRounds |-> Len(validRounds),
       errorRounds |-> Len(rounds) - Len(validRounds)]

ScaleNames == {Scales[i] : i \in DOMAIN Scales}

calculateAverageScoresFromRepeats(sc) ==
  [s \in {t \in ScaleNames : Len(sc[t]) > 0} |-> AverageOfScale(sc[s])]

\* the end of evaluateEngineResults and the store in evaluateQuery
FinishEngine ==
  /\ pc = "engineEnd"
  /\ engines' = Append(engines,
       [engine |-> searchResults[engineIdx].engine,
        error |-> FALSE,
        scores |-> scores,
        averageScores |-> calculateAverageScoresFromRepeats(scores),
        repeatTimes |-> repeatTimes])
  /\ scores' = <<>>
  /\ engineIdx' = engineIdx + 1
  /\ pc' = "engine"
  /\ UNCHANGED <<searchResults, repeatTimes, stub, round, scaleIdx, dimIdx,
                 dimensionScores, summary, judgeCalls, judgeOutcomes,
                 judgeVars, cwVars,
                 batchVars, statVars, sysVars,
                 runVars>>

-----------------------------------------------------------------------------
(* EvaluationManager.generateSummary *)

\* variant: the sort is not stable, equal scores end up in reverse order
RECURSIVE InsertByScore_Unstable(_, _)
InsertByScore_Unstable(sorted, item) ==
  IF sorted = <<>> THEN <<item>>
  ELSE IF RatLE(Head(sorted).score, item.score)
       THEN <<item>> \o sorted
       ELSE <<Head(sorted)>> \o InsertByScore_Unstable(Tail(sorted), item)

\* Array.prototype.sort with (a, b) => b.score - a.score: stable, descending
RECURSIVE InsertByScore(_, _)
InsertByScore(sorted, item) ==
  IF sorted = <<>> THEN <<item>>
  ELSE IF RatLT(Head(sorted).score, item.score)
       THEN <<item>> \o sorted
       ELSE <<Head(sorted)>> \o InsertByScore(Tail(sorted), item)

RECURSIVE SortByScore(_)
SortByScore(q) ==
  IF q = <<>> THEN <<>>
  ELSE InsertByScore(SortByScore(SubSeq(q, 1, Len(q) - 1)), q[Len(q)])

\* the entries generateSummary collects for one scale: providers without
\* error whose averageScores[scale].weighted is a number
HasMean(e, scale) ==
  /\ ~e.error
  /\ scale \in DOMAIN e.averageScores
  /\ ~IsNaN(e.averageScores[scale].weighted)

RECURSIVE EngineScores(_, _)
EngineScores(entries, scale) ==
  IF entries = <<>> THEN <<>>
  ELSE (IF HasMean(Head(entries), scale)
        THEN <<[engine |-> Head(entries).engine,
                score |-> Head(entries).averageScores[scale].weighted]>>
        ELSE <<>>) \o EngineScores(Tail(entries), scale)

Ranking(entries, scale) ==
  LET sorted == SortByScore(EngineScores(entries, scale))
  IN  [i \in DOMAIN sorted |->
         [rank |-> i, engine |-> sorted[i].engine, score |-> sorted[i].score]]

generateSummary(entries) ==
  [totalEngines |-> Len(entries),
   successfulEngines |-> Cardinality({i \in DOMAIN entries : ~entries[i].error}),
   failedEngines |-> Cardinality({i \in DOMAIN entries : entries[i].error}),
   rankings |-> [s \in ScaleNames |-> Ranking(entries, s)]]

\* the for loop of evaluateQuery is over: summary, display, return
FinishQuery ==
  /\ pc = "engine"
  /\ engineIdx > Len(searchResults)
  /\ summary' = generateSummary(engines)
  /\ pc' = "done"
  /\ UNCHANGED <<searchResults, repeatTimes, stub, engineIdx, round, scaleIdx,
                 dimIdx, dimensionScores, scores, engines, judgeCalls,
                 judgeOutcomes, judgeVars, cwVars,
                 batchVars, statVars, sysVars,
                 runVars>>

Init == InitEval

Next ==
  \/ SkipFailedEngine \/ EngineThrows \/ StartEngine
  \/ ScoreDimension \/ FinishRound \/ FinishEngine \/ FinishQuery

Spec == Init /\ [][Next]_vars

-----------------------------------------------------------------------------
(* Properties *)

\* sum of f over a finite set of indices, in exact fractions
RECURSIVE SumOver(_, _)
SumOver(S, f) ==
  IF S = {} THEN Num(0)
  ELSE LET i == CHOOSE j \in S : TRUE
       IN  RatAdd(f[i], SumOver(S \ {i}, f))

\* the configured dimensions calculateWeightedScore may count: the record
\* exists and its error flag is not set
Qualifying == {i \in DOMAIN cwDims :
                 /\ cwDims[i].name \in DOMAIN cwScores
                 /\ ~cwScores[cwDims[i].name].error}

\* C1: calculateWeightedScore returns the sum of score*weight over the
\* configured dimensions whose record exists and is not an error record,
\* divided by the sum of those weights; 0 when no dimension qualifies; and
\* exactly s for one dimension of weight 1.0 with score s.
C1_WeightedScore ==
  cwResult # <<>> =>
    LET r  == cwResult[1]
        sw == [i \in DOMAIN cwDims |->
                 RatMul(cwScores[cwDims[i].name].score, cwDims[i].weight)]
        w  == [i \in DOMAIN cwDims |-> cwDims[i].weight]
    IN  /\ Qualifying = {} => r = Num(0)
        /\ Qualifying # {} =>
              /\ RatMul(r, SumOver(Qualifying, w)) = SumOver(Qualifying, sw)
              /\ Len(cwDims) = 1 => r = cwScores[cwDims[1].name].score

\* a three-dimension map with one error record and two counted records
C1_Witness ==
  /\ cwResult # <<>>
  /\ Len(cwDims) = 3
  /\ Cardinality(Qualifying) = 2
  /\ Cardinality(DOMAIN cwScores) = 3
  /\ cwResult[1] = Norm(25, 7)

\* C2: every ScoreRecord batchScoreDimension returns without the error
\* flag has an integer score inside the scale of its scorer (binary 0..2,
\* five-point 1..5), whatever the judge answered.
C2_ScoreInScale ==
  (jpc = "scored" /\ ~jRecord.error) =>
    /\ IsInt(jRecord.score)
    /\ ScaleMin(jScale) <= jRecord.score.n
    /\ jRecord.score.n <= ScaleMax(jScale)

Fetches == {i \in DOMAIN httpLog : httpLog[i].ev = "fetch"}

\* C3: callAIModel makes at most maxRetries HTTP attempts; nothing follows
\* a successful attempt; failed attempt k < maxRetries is followed by a
\* wait of k*1000 ms and then attempt k+1; the maxRetries-th failure throws
\* without a wait.
C3_RetryBackoff ==
  /\ Cardinality(Fetches) <= maxRetries
  /\ \A i \in DOMAIN httpLog :
       LET e == httpLog[i]
       IN  /\ e.ev = "fetch" =>
                 /\ e.k = Cardinality({j \in Fetches : j <= i})
                 /\ i = 1 \/ httpLog[i - 1].ev = "wait"
                 /\ i = Len(httpLog) => jpc = "fetch"
           /\ e.ev = "ok" =>
                 /\ i = Len(httpLog)
                 /\ jpc \in {"returned", "scored"}
           /\ (e.ev = "fail" /\ e.k < maxRetries) =>
                 /\ i < Len(httpLog)
                 /\ httpLog[i + 1] = [ev |-> "wait", k |-> e.k * 1000]
                 /\ i + 1 = Len(httpLog) => jpc \in {"backoff", "loop"}
                 /\ i + 1 < Len(httpLog) =>
                       httpLog[i + 2] = [ev |-> "fetch", k |-> e.k + 1]
           /\ (e.ev = "fail" /\ e.k >= maxRetries) =>
                 /\ e.k = maxRetries
                 /\ i = Len(httpLog)
                 /\ jpc \in {"thrown", "dimThrown"}
           /\ e.ev = "wait" => i > 1 /\ httpLog[i - 1].ev = "fail"
  /\ jpc \in {"thrown", "dimThrown"} =>
       /\ httpLog # <<>>
       /\ httpLog[Len(httpLog)] = [ev |-> "fail", k |-> maxRetries]
  /\ jpc \in {"returned", "scored"} =>
       /\ httpLog # <<>>
       /\ httpLog[Len(httpLog)].ev = "ok"

\* the default call fails three times: waits of 1000 and 2000 ms, then throws
C3_Witness ==
  /\ maxRetries = 3
  /\ jpc = "thrown"
  /\ Len(httpLog) = 8
  /\ httpLog[3] = [ev |-> "wait", k |-> 1000]
  /\ httpLog[6] = [ev |-> "wait", k |-> 2000]

\* the round entries evaluateEngineResults has stored so far
AllRounds ==
  LET ofEntry(e) == IF e.error THEN {}
                    ELSE UNION {{e.scores[s][i] : i \in DOMAIN e.scores[s]} :
                                  s \in ScaleNames}
      running == IF pc \in {"dimension", "roundEnd", "engineEnd"}
                 THEN UNION {{scores[s][i] : i \in DOMAIN scores[s]} :
                               s \in ScaleNames}
                 ELSE {}
  IN  running \cup UNION {ofEntry(engines[i]) : i \in DOMAIN engines}

NoScore(resp) ==
  /\ resp # <<>>
  /\ \A i \in DOMAIN resp :
       \/ resp[i].t \in {"word", "kw"}
       \/ resp[i].t = "tag" /\ resp[i].inner.t = "word"

\* C5: when no score can be extracted from the judge's response, the
\* stored ScoreRecord has the minimum score, error true and the raw
\* response as reasoning (so the weighted score leaves it out).
C5_UnparseableFlagged ==
  (jpc = "scored" /\ NoScore(jContent)) =>
    /\ jRecord.error
    /\ jRecord.score = Num(ScaleMin(jScale))
    /\ jRecord.reasoning = "raw"

\* the evaluations evaluateQuery has stored: <<entry, scale>> pairs
Evaluated ==
  {<<engines[i], s>> : i \in {j \in DOMAIN engines : ~engines[j].error},
                      s \in ScaleNames}

\* percent weight of a configured dimension, as an integer
Percent(i) == (Dimensions[i].weight.n * 100) \div Dimensions[i].weight.d

\* dimension D failed in every round of the evaluation and no other did
OnlyFails(rounds, D) ==
  \A k \in DOMAIN rounds : \A i \in DOMAIN Dimensions :
    rounds[k].overallScores[Dimensions[i].name].error <=> (i = D)

\* C6: if the judge fails every call for one dimension D and succeeds for
\* all others, each round's weightedScore is the weighted mean of the other
\* dimensions only (D's weight is not in the denominator) and every round
\* counts in validRounds, none in errorRounds.
C6_PartialFailure ==
  \A p \in Evaluated : \A D \in DOMAIN Dimensions :
    LET rounds == p[1].scores[p[2]]
        avg    == p[1].averageScores[p[2]]
        others == DOMAIN Dimensions \ {D}
    IN  OnlyFails(rounds, D) =>
          /\ \A k \in DOMAIN rounds :
               LET sw == [i \in DOMAIN Dimensions |->
                            RatMul(rounds[k].overallScores[Dimensions[i].name].score,
                                   Num(Percent(i)))]
                   w  == [i \in DOMAIN Dimensions |-> Num(Percent(i))]
               IN  RatMul(rounds[k].weightedScore, SumOver(others, w))
                     = SumOver(others, sw)
          /\ avg.validRounds = Len(rounds)
          /\ avg.errorRounds = 0

\* two rounds in which "authority" always failed and "relevance" scored 5
C6_Witness ==
  \E p \in Evaluated :
    /\ p[2] = "five_point"
    /\ Len(p[1].scores[p[2]]) = 2
    /\ OnlyFails(p[1].scores[p[2]], 2)
    /\ \A k \in 1..2 : p[1].scores[p[2]][k].weightedScore = Num(5)

\* the rounds that enter the averages: no round-level error, and a
\* weightedScore
ValidIdx(rounds) ==
  {k \in DOMAIN rounds :
     ~("error" \in DOMAIN rounds[k]) /\ "weightedScore" \in DOMAIN rounds[k]}

\* C7: for each scale with a valid round, averageScores[scale].dimensions
\* holds for every configured dimension the mean of its ScoreRecord.score
\* over the valid rounds.
C7_DimensionMeans ==
  \A p \in Evaluated :
    LET rounds == p[1].scores[p[2]]
        avg    == p[1].averageScores[p[2]]
        valid  == ValidIdx(rounds)
    IN  valid # {} =>
          \A i \in DOMAIN Dimensions :
            LET name == Dimensions[i].name
                sc   == [k \in DOMAIN rounds |-> rounds[k].overallScores[name].score]
            IN  /\ name \in DOMAIN avg.dimensions
                /\ RatMul(avg.dimensions[name], Num(Cardinality(valid)))
                     = SumOver(valid, sc)

\* C8: per scale totalRounds = repeatTimes, validRounds + errorRounds =
\* totalRounds, and averageScores[scale].weighted is the mean of
\* weightedScore over exactly the valid rounds.
C8_RoundCounts ==
  \A i \in DOMAIN engines : ~engines[i].error =>
    \A s \in ScaleNames :
      /\ s \in DOMAIN engines[i].averageScores
      /\ LET rounds == engines[i].scores[s]
             avg    == engines[i].averageScores[s]
             valid  == ValidIdx(rounds)
             ws     == [k \in DOMAIN rounds |-> rounds[k].weightedScore]
         IN  /\ avg.totalRounds = repeatTimes
             /\ avg.validRounds + avg.errorRounds = avg.totalRounds
             /\ avg.validRounds = Cardinality(valid)
             /\ valid # {} =>
                   RatMul(avg.weighted, Num(Cardinality(valid))) = SumOver(valid, ws)

\* two rounds with weighted scores 0 and 2 on the binary scale: the mean is 1
C8_Witness ==
  \E p \in Evaluated :
    /\ p[2] = "binary"
    /\ Len(p[1].scores[p[2]]) = 2
    /\ p[1].scores[p[2]][1].weightedScore = Num(0)
    /\ p[1].scores[p[2]][2].weightedScore = Num(2)
    /\ p[1].averageScores[p[2]].weighted = Num(1)

\* the rounds in which no dimension was scored
FailedIdx(rounds) ==
  {k \in DOMAIN rounds :
     \A i \in DOMAIN Dimensions : rounds[k].overallScores[Dimensions[i].name].error}

\* C9: a round in which every dimension's judge call failed is left out of
\* the mean weighted score (it does not enter as a 0) and is counted in
\* errorRounds, not in validRounds.
C9_FailedRoundExcluded ==
  \A p \in Evaluated :
    LET rounds == p[1].scores[p[2]]
        avg    == p[1].averageScores[p[2]]
        failed == FailedIdx(rounds)
        good   == DOMAIN rounds \ failed
        ws     == [k \in DOMAIN rounds |-> rounds[k].weightedScore]
    IN  /\ avg.errorRounds = Cardinality(failed)
        /\ avg.validRounds = Cardinality(good)
        /\ good # {} =>
              RatMul(avg.weighted, Num(Cardinality(good))) = SumOver(good, ws)

\* C10: a provider whose search result carries an error is stored as an
\* error entry, no judge call is made and no round is evaluated for it, and
\* the other providers of the query are still evaluated.
C10_FailedProviderSkipped ==
  /\ Len(engines) = engineIdx - 1
  /\ \A i \in DOMAIN searchResults :
       /\ i \in DOMAIN engines => engines[i].engine = searchResults[i].engine
       /\ searchResults[i].kind = "error" =>
            /\ judgeCalls[i] = 0
            /\ i = engineIdx => pc = "engine"
            /\ i \in DOMAIN engines =>
                  engines[i].error /\ ~("scores" \in DOMAIN engines[i])
       /\ (searchResults[i].kind = "ok" /\ pc = "done") =>
            /\ ~engines[i].error
            /\ \A s \in ScaleNames : Len(engines[i].scores[s]) = repeatTimes
            /\ judgeCalls[i] = 2 * Len(Dimensions) * repeatTimes
  /\ pc = "done" => Len(engines) = Len(searchResults)

\* the first provider's search failed and the second was evaluated
C10_Witness ==
  /\ pc = "done"
  /\ Len(searchResults) = 2
  /\ searchResults[1].kind = "error"
  /\ engines[1].error
  /\ ~engines[2].error
  /\ judgeCalls = <<0, 2 * Len(Dimensions) * repeatTimes>>

-----------------------------------------------------------------------------
(* BatchTestManager.runBatchTest: executeTests over the (round, query)     *)
(* cells, then generateFinalReport.  The evaluation of one cell is         *)
(* evaluateQuery under a judge that ends every call of the cell the same   *)
(* way, computed with the operators above.                                 *)

MaxBatchRounds == 2     \* config.evaluation.repeat_times is in 0..MaxBatchRounds
MaxQueries == 2         \* executeTests gets 1..MaxQueries queries
MaxCells == 4           \* and runs at most MaxCells (round, query) cells

DefaultRepeatTimes == 3 \* config.evaluation?.repeat_times || 3

\* repeat_times || 3
RepeatTimesOf(r) == IF r = 0 THEN DefaultRepeatTimes ELSE r

QueryNames == <<"q1", "q2", "q3">>

\* options.repeatTimes: not given, or 1
OptRepeats == {0, 1}

TagReply(v) == Reply(<<[t |-> "tag", inner |-> [t |-> "bare", v |-> v]]>>)
\* {"score": "high", ...}: batchScoreDimension returns the score NaN
NaNReply == Reply(<<[t |-> "json", score |-> [k |-> "str", v |-> 0]]>>)

\* what can happen to one provider in one cell: its search fails, or it is
\* evaluated with a judge whose calls all end the same way
SearchFailed == [search |-> "error", judge |-> Throw]
Judged(j) == [search |-> "ok", judge |-> j]

\* weighted scores (binary, five_point) of a judged provider: LowReply (0, 1),
\* TagReply(20) (2, 2), TagReply(40) (2, 4), HighReply (2, 5), NaNReply
\* (NaN, NaN)
FullCellMenu ==
  {SearchFailed, Judged(LowReply), Judged(TagReply(20)), Judged(TagReply(40)),
   Judged(HighReply), Judged(NaNReply)}
FixedCellMenus ==
  {{SearchFailed}, {Judged(TagReply(40))}, {Judged(HighReply)},
   {SearchFailed, Judged(HighReply)}}

InitBatch ==
  /\ bpc = "cell"
  /\ cfgRepeat \in 0..MaxBatchRounds
  /\ optRepeat \in OptRepeats
  /\ batchRepeatTimes = RepeatTimesOf(cfgRepeat)
  /\ repeatTimes = RepeatTimesOf(cfgRepeat)
  /\ \E n \in 1..MaxQueries :
       /\ n * batchRepeatTimes <= MaxCells
       /\ queries = [i \in 1..n |-> QueryNames[i]]
  /\ \E n \in 1..MaxEngines :
       /\ enabled = [i \in 1..n |-> EngineNames[i]]
       /\ cellMenu \in IF n = 1 THEN {<<FullCellMenu>>} ELSE [1..n -> FixedCellMenus]
  /\ bRound = 1 /\ queryIndex = 1
  /\ roundResults = <<>> /\ allTestResults = <<>>
  /\ thrownCells = {} /\ finalReport = <<>>
  /\ pc = "idle" /\ searchResults = <<>> /\ stub = <<>>
  /\ engineIdx = 1 /\ round = 1 /\ scaleIdx = 1 /\ dimIdx = 1
  /\ dimensionScores = <<>> /\ scores = <<>> /\ engines = <<>>
  /\ summary = <<>> /\ judgeCalls = <<>> /\ judgeOutcomes = <<>>
  /\ JudgeIdle /\ CwIdle /\ StatIdle /\ SysIdle /\ RunIdle

\* EvaluationManager.evaluateEngineResults with a judge that ends every call
\* the same way: the rounds of both scorers and their averages
EvaluateEngine(name, R, j) ==
  LET overall(scale) ==
        [n \in Names(Dimensions) |->
           IF j.ok THEN Scored(batchScoreDimension(j.content, scale), n)
           ELSE ErrorRecord(n)]
      sc == [binary |-> [r \in 1..R |-> RoundEntry(r, overall("binary"))],
             five_point |-> [r \in 1..R |-> RoundEntry(r, overall("five_point"))]]
  IN  [engine |-> name,
       error |-> FALSE,
       scores |-> sc,
       averageScores |-> calculateAverageScoresFromRepeats(sc),
       repeatTimes |-> R]

\* searchWithAllEngines and evaluateQuery for one cell; outcome[i] is what
\* happens to provider i
EvaluateCell(q, outcome) ==
  LET entries == [i \in DOMAIN enabled |->
                    IF outcome[i].search = "error"
                    THEN ErrorEntry(enabled[i])
                    ELSE EvaluateEngine(enabled[i], repeatTimes, outcome[i].judge)]
  IN  [query |-> q,
       engines |-> entries,
       summary |-> generateSummary(entries),
       round |-> bRound,
       queryIndex |-> queryIndex - 1,
       error |-> FALSE]

\* the entry the catch block of executeTests pushes
ErrorCell(q) ==
  [query |-> q, round |-> bRound, queryIndex |-> queryIndex - 1, error |-> TRUE]

\* roundResults.push(result), then the next query, the next round, or the
\* end of executeTests
AfterCell(result) ==
  IF queryIndex < Len(queries)
  THEN /\ roundResults' = Append(roundResults, result)
       /\ queryIndex' = queryIndex + 1
       /\ UNCHANGED <<bpc, bRound, allTestResults>>
  ELSE /\ allTestResults' = Append(allTestResults,
            [round |-> bRound, results |-> Append(roundResults, result)])
       /\ roundResults' = <<>>
       /\ queryIndex' = 1
       /\ IF bRound < batchRepeatTimes
          THEN bRound' = bRound + 1 /\ bpc' = "cell"
          ELSE bRound' = bRound /\ bpc' = "report"

CellOutcomes ==
  {o \in [DOMAIN enabled -> UNION {cellMenu[i] : i \in DOMAIN cellMenu}] :
     \A i \in DOMAIN enabled : o[i] \in cellMenu[i]}

\* the try block of one cell runs to its end
CellEvaluated ==
  /\ bpc = "cell"
  /\ \E o \in CellOutcomes : AfterCell(EvaluateCell(queries[queryIndex], o))
  /\ UNCHANGED <<cfgRepeat, optRepeat, queries, enabled, cellMenu,
                 batchRepeatTimes, thrownCells, finalReport,
                 judgeVars, cwVars, evalVars, statVars, sysVars,
                 runVars>>

\* variant: no try/catch around the cell, the exception leaves executeTests
CellThrows_NoCatch ==
  /\ bpc = "cell"
  /\ thrownCells' = thrownCells \cup {<<bRound, queryIndex>>}
  /\ bpc' = "thrown"
  /\ UNCHANGED <<cfgRepeat, optRepeat, queries, enabled, cellMenu,
                 batchRepeatTimes, bRound, queryIndex, roundResults,
                 allTestResults, finalReport,
                 judgeVars, cwVars, evalVars, statVars, sysVars,
                 runVars>>

\* searchWithAllEngines rejects (no provider is enabled) or evaluateQuery
\* rejects: the catch block records the cell
CellThrows ==
  /\ bpc = "cell"
  /\ thrownCells' = thrownCells \cup {<<bRound, queryIndex>>}
  /\ AfterCell(ErrorCell(queries[queryIndex]))
  /\ UNCHANGED <<cfgRepeat, optRepeat, queries, enabled, cellMenu,
                 batchRepeatTimes, finalReport,
                 judgeVars, cwVars, evalVars, statVars, sysVars,
                 runVars>>

-----------------------------------------------------------------------------
(* BatchTestManager.aggregateResults *)

RatSub(a, b) == RatAdd(a, RatMul(Num(-1), b))

\* Math.sqrt(q), kept by its argument: it is 0 iff q is 0, NaN iff q is NaN
Sqrt(q) == [sqrtOf |-> q]

\* the results of all rounds, in forEach order
RECURSIVE Flatten(_)
Flatten(testResults) ==
  IF testResults = <<>> THEN <<>>
  ELSE Head(testResults).results \o Flatten(Tail(testResults))

\* the cells that pass "if (result.error) return"
GoodCells(testResults) == SelectSeq(Flatten(testResults), LAMBDA r : ~r.error)

\* the keys of engineStats in insertion order
RECURSIVE AddKeys(_, _)
AddKeys(keys, entries) ==
  IF entries = <<>> THEN keys
  ELSE AddKeys(IF \E i \in DOMAIN keys : keys[i] = Head(entries).engine
               THEN keys ELSE Append(keys, Head(entries).engine),
               Tail(entries))

RECURSIVE StatKeys(_, _)
StatKeys(keys, cells) ==
  IF cells = <<>> THEN keys
  ELSE StatKeys(AddKeys(keys, Head(cells).engines), Tail(cells))

\* the entries of one provider over the cells, in forEach order
RECURSIVE EntriesOf(_, _)
EntriesOf(cells, name) ==
  IF cells = <<>> THEN <<>>
  ELSE SelectSeq(Head(cells).engines, LAMBDA e : e.engine = name)
         \o EntriesOf(Tail(cells), name)

\* engineStats[name].scores[scoringType]
RECURSIVE WeightedOf(_, _)
WeightedOf(entries, scale) ==
  IF entries = <<>> THEN <<>>
  ELSE (IF ~Head(entries).error /\ scale \in DOMAIN Head(entries).averageScores
        THEN <<Head(entries).averageScores[scale].weighted>>
        ELSE <<>>) \o WeightedOf(Tail(entries), scale)

\* variant: total_tests is counted only when the provider has no error
EngineStats_CountSuccessOnly(cells, name) ==
  LET entries == EntriesOf(cells, name)
  IN  [scores |-> [s \in ScaleNames |-> WeightedOf(entries, s)],
       total_tests |-> Len(SelectSeq(entries, LAMBDA e : ~e.error)),
       successful_tests |-> Len(SelectSeq(entries, LAMBDA e : ~e.error))]

EngineStats(cells, name) ==
  LET entries == EntriesOf(cells, name)
  IN  [scores |-> [s \in ScaleNames |-> WeightedOf(entries, s)],
       total_tests |-> Len(entries),
       successful_tests |-> Len(SelectSeq(entries, LAMBDA e : ~e.error))]

\* Math.min(...scores) and Math.max(...scores) of a non-empty array
RECURSIVE MinOf(_)
MinOf(q) == IF Len(q) = 1 THEN q[1] ELSE MathMin(Head(q), MinOf(Tail(q)))
RECURSIVE MaxOf(_)
MaxOf(q) == IF Len(q) = 1 THEN q[1] ELSE MathMax(Head(q), MaxOf(Tail(q)))

\* scores.reduce((sum, score) => sum + Math.pow(score - mean, 2), 0) / length
Variance(q, mean) ==
  Average([i \in DOMAIN q |-> RatMul(RatSub(q[i], mean), RatSub(q[i], mean))])

AverageScores(q) ==
  [mean |-> Average(q),
   min |-> MinOf(q),
   max |-> MaxOf(q),
   std_dev |-> Sqrt(Variance(q, Average(q))),
   count |-> Len(q)]

\* Math.sqrt(variance) / mean is the square root of variance / mean^2
ScoreStability(q) ==
  LET mean == Average(q)
  IN  [coefficient_of_variation |->
         IF RatGT(mean, Num(0))
         THEN Sqrt(RatDiv(Variance(q, mean), RatMul(mean, mean)))
         ELSE Sqrt(Num(0)),
       range |-> RatSub(MaxOf(q), MinOf(q))]

EnginePerformance(stats) ==
  LET sampled == {s \in ScaleNames : Len(stats.scores[s]) > 0}
  IN  [success_rate |-> RatDiv(Num(stats.successful_tests), Num(stats.total_tests)),
       average_scores |-> [s \in sampled |-> AverageScores(stats.scores[s])],
       score_stability |-> [s \in sampled |-> ScoreStability(stats.scores[s])]]

\* the number of keys of queryResults
UniqueQueries(cells) == Cardinality({cells[i].query : i \in DOMAIN cells})

\* engine_performance is kept as the list of its entries in key order
aggregateResults(testResults) ==
  LET cells == GoodCells(testResults)
      keys  == StatKeys(<<>>, cells)
  IN  [unique_queries |-> UniqueQueries(cells),
       total_tests |-> Len(testResults) * UniqueQueries(cells),
       engine_performance |->
         [i \in DOMAIN keys |->
            [engine |-> keys[i],
             performance |-> EnginePerformance(EngineStats(cells, keys[i]))]]]

-----------------------------------------------------------------------------
(* BatchTestManager.generateEngineRankings *)

\* x || 0 for a number x
OrZero(q) == IF IsNaN(q) THEN Num(0) ELSE q

\* performance.average_scores[scoringType]?.mean || 0
MeanOrZero(performance, scale) ==
  IF scale \in DOMAIN performance.average_scores
  THEN OrZero(performance.average_scores[scale].mean)
  ELSE Num(0)

\* 1 - (coefficient_of_variation || 1), kept as 1 - sqrt(oneMinusSqrtOf)
Stability(performance, scale) ==
  LET cv == IF scale \in DOMAIN performance.score_stability
            THEN performance.score_stability[scale].coefficient_of_variation.sqrtOf
            ELSE Num(0)
  IN  [oneMinusSqrtOf |-> IF IsNaN(cv) \/ cv = Num(0) THEN Num(1) ELSE cv]

ScaleRanking(enginePerformance, scale) ==
  LET engineScores ==
        SortByScore([i \in DOMAIN enginePerformance |->
          [engine |-> enginePerformance[i].engine,
           score |-> MeanOrZero(enginePerformance[i].performance, scale),
           stability |-> Stability(enginePerformance[i].performance, scale),
           success_rate |-> enginePerformance[i].performance.success_rate]])
  IN  [i \in DOMAIN engineScores |->
         [rank |-> i,
          engine |-> engineScores[i].engine,
          score |-> engineScores[i].score,
          stability |-> engineScores[i].stability,
          success_rate |-> engineScores[i].success_rate]]

\* variant: the five-point mean is normalised as score / 5
CombinedScore_NoOffset(performance) ==
  LET binaryScore == MeanOrZero(performance, "binary")
      fivePointScore == MeanOrZero(performance, "five_point")
      normalizedBinary == RatDiv(binaryScore, Num(2))
      normalizedFivePoint == RatDiv(fivePointScore, Num(5))
  IN  RatDiv(RatAdd(normalizedBinary, normalizedFivePoint), Num(2))

CombinedScore(performance) ==
  LET binaryScore == MeanOrZero(performance, "binary")
      fivePointScore == MeanOrZero(performance, "five_point")
      normalizedBinary == RatDiv(binaryScore, Num(2))
      normalizedFivePoint == RatDiv(RatSub(fivePointScore, Num(1)), Num(4))
  IN  RatDiv(RatAdd(normalizedBinary, normalizedFivePoint), Num(2))

\* sort with (a, b) => b.combined_score - a.combined_score
RECURSIVE InsertByCombined(_, _)
InsertByCombined(sorted, item) ==
  IF sorted = <<>> THEN <<item>>
  ELSE IF RatLT(Head(sorted).combined_score, item.combined_score)
       THEN <<item>> \o sorted
       ELSE <<Head(sorted)>> \o InsertByCombined(Tail(sorted), item)

RECURSIVE SortByCombined(_)
SortByCombined(q) ==
  IF q = <<>> THEN <<>>
  ELSE InsertByCombined(SortByCombined(SubSeq(q, 1, Len(q) - 1)), q[Len(q)])

CombinedRanking(enginePerformance) ==
  LET combinedScores ==
        SortByCombined([i \in DOMAIN enginePerformance |->
          [engine |-> enginePerformance[i].engine,
           combined_score |-> CombinedScore(enginePerformance[i].performance),
           success_rate |-> enginePerformance[i].performance.success_rate]])
  IN  [i \in DOMAIN combinedScores |->
         [rank |-> i,
          engine |-> combinedScores[i].engine,
          combined_score |-> combinedScores[i].combined_score,
          success_rate |-> combinedScores[i].success_rate]]

generateEngineRankings(aggregatedData) ==
  [binary |-> ScaleRanking(aggregatedData.engine_performance, "binary"),
   five_point |-> ScaleRanking(aggregatedData.engine_performance, "five_point"),
   combined |-> CombinedRanking(aggregatedData.engine_performance)]

generateFinalReport(testResults) ==
  LET aggregatedData == aggregateResults(testResults)
  IN  [total_rounds |-> Len(testResults),
       total_queries |-> aggregatedData.unique_queries,
       aggregated_results |-> aggregatedData,
       engine_rankings |-> generateEngineRankings(aggregatedData)]

\* executeTests has returned: generateFinalReport, and runBatchTest returns
Report ==
  /\ bpc = "report"
  /\ finalReport' = generateFinalReport(allTestResults)
  /\ bpc' = "done"
  /\ UNCHANGED <<cfgRepeat, optRepeat, queries, enabled, cellMenu,
                 batchRepeatTimes, bRound, queryIndex, roundResults,
                 allTestResults, thrownCells,
                 judgeVars, cwVars, evalVars, statVars, sysVars,
                 runVars>>

NextBatch == CellEvaluated \/ CellThrows \/ Report

SpecBatch == InitBatch /\ [][NextBatch]_vars

-----------------------------------------------------------------------------
(* Properties of the batch run *)

\* the cells executeTests has recorded so far that are not error cells
RecordedCells ==
  LET all == Flatten(allTestResults) \o roundResults
  IN  {all[i] : i \in {j \in DOMAIN all : ~all[j].error}}

\* position of a provider in the iteration order of the providers
Pos(name) == CHOOSE i \in DOMAIN enabled : enabled[i] = name

\* L lists each provider at most once, ranks are 1..n in list order, scores
\* do not increase, and equal scores keep the iteration order
IsRanking(L) ==
  /\ \A i \in DOMAIN L : L[i].rank = i
  /\ \A i, j \in DOMAIN L : i < j =>
       /\ L[i].engine # L[j].engine
       /\ RatLE(L[j].score, L[i].score)
       /\ L[i].score = L[j].score => Pos(L[i].engine) < Pos(L[j].engine)

\* C11: every per-scale ranking, per query (generateSummary) and batch-wide
\* (generateEngineRankings), lists each provider at most once in
\* non-increasing score order with ranks 1..n in list order, and providers
\* with equal score keep their relative iteration order.
C11_RankingsOrdered ==
  /\ \A c \in RecordedCells : \A s \in ScaleNames : IsRanking(c.summary.rankings[s])
  /\ bpc = "done" => \A s \in ScaleNames : IsRanking(finalReport.engine_rankings[s])

\* two providers tie on the binary scale and keep their order, and the
\* second one leads the five-point ranking, in a cell and in the batch
C11_Witness ==
  /\ bpc = "done"
  /\ Len(enabled) = 2
  /\ \E c \in RecordedCells :
       /\ Len(c.summary.rankings["binary"]) = 2
       /\ c.summary.rankings["binary"][1].engine = enabled[1]
       /\ c.summary.rankings["binary"][1].score = c.summary.rankings["binary"][2].score
       /\ c.summary.rankings["five_point"][1].engine = enabled[2]
  /\ LET b == finalReport.engine_rankings["binary"]
         f == finalReport.engine_rankings["five_point"]
     IN  /\ Len(b) = 2 /\ b[1].engine = enabled[1] /\ b[1].score = b[2].score
         /\ f[1].engine = enabled[2] /\ RatLT(f[2].score, f[1].score)

\* the performance record of a provider in the final report
PerformanceOf(name) ==
  LET ep == finalReport.aggregated_results.engine_performance
  IN  ep[CHOOSE i \in DOMAIN ep : ep[i].engine = name].performance

\* the provider has a numeric mean on the scale in the final report
HasBatchMean(name, scale) ==
  /\ \E i \in DOMAIN finalReport.aggregated_results.engine_performance :
       finalReport.aggregated_results.engine_performance[i].engine = name
  /\ scale \in DOMAIN PerformanceOf(name).average_scores
  /\ ~IsNaN(PerformanceOf(name).average_scores[scale].mean)

\* C12: in the batch report, a provider with a (numeric) mean on both scales
\* has combined_score = ((five_point_mean - 1) / 4 + binary_mean / 2) / 2,
\* i.e. 8 * combined_score = (five_point_mean - 1) + 2 * binary_mean, and the
\* combined ranking is in non-increasing combined_score order with ranks 1..n.
C12_CombinedScore ==
  bpc = "done" =>
    LET L == finalReport.engine_rankings["combined"]
    IN  /\ \A i \in DOMAIN L :
             /\ L[i].rank = i
             /\ (HasBatchMean(L[i].engine, "binary") /\ HasBatchMean(L[i].engine, "five_point")) =>
                  RatMul(Num(8), L[i].combined_score) =
                    RatAdd(RatSub(PerformanceOf(L[i].engine).average_scores["five_point"].mean, Num(1)),
                           RatMul(Num(2), PerformanceOf(L[i].engine).average_scores["binary"].mean))
        /\ \A i, j \in DOMAIN L : i < j =>
             /\ L[i].engine # L[j].engine
             /\ RatLE(L[j].combined_score, L[i].combined_score)

\* two providers with means on both scales, the second one ahead of the first
\* in the combined ranking
C12_Witness ==
  /\ bpc = "done"
  /\ Len(enabled) = 2
  /\ \A i \in 1..2 : \A s \in ScaleNames : HasBatchMean(enabled[i], s)
  /\ LET L == finalReport.engine_rankings["combined"]
     IN  /\ Len(L) = 2
         /\ L[1].engine = enabled[2]
         /\ RatLT(L[2].combined_score, L[1].combined_score)
         /\ PerformanceOf(enabled[1]).average_scores["five_point"].mean = Num(4)

\* the normalized value of a scale (binary mean / 2, (five-point mean - 1) / 4)
\* when the provider has a mean for it, and 0 when average_scores has no
\* entry for the scale
NormalizedOrZero(name, scale) ==
  IF scale \notin DOMAIN PerformanceOf(name).average_scores THEN Num(0)
  ELSE IF scale = "binary"
       THEN RatDiv(OrZero(PerformanceOf(name).average_scores[scale].mean), Num(2))
       ELSE RatDiv(RatSub(OrZero(PerformanceOf(name).average_scores[scale].mean), Num(1)), Num(4))

\* C13: in the combined ranking a provider without a mean for a scale
\* contributes exactly 0 as that scale's normalized value: its combined_score
\* is half of the sum of the normalized values of the scales it has.
C13_MissingScaleIsZero ==
  bpc = "done" =>
    LET L == finalReport.engine_rankings["combined"]
    IN  \A i \in DOMAIN L :
          (\E s \in ScaleNames : s \notin DOMAIN PerformanceOf(L[i].engine).average_scores) =>
            RatMul(Num(2), L[i].combined_score) =
              RatAdd(NormalizedOrZero(L[i].engine, "binary"),
                     NormalizedOrZero(L[i].engine, "five_point"))

\* the entries recorded for round r are those of queries 1..n in input order,
\* an error entry exactly where the cell threw
RoundShape(results, r, n) ==
  /\ Len(results) = n
  /\ \A i \in 1..n :
       /\ results[i].query = queries[i]
       /\ results[i].queryIndex = i - 1
       /\ results[i].round = r
       /\ results[i].error <=> <<r, i>> \in thrownCells

\* C14: an exception in one (round, query) cell of executeTests is recorded as
\* the error entry of that cell and the loop goes on: every finished round
\* has one entry per query in input order, the round in progress has one
\* entry per query handled so far, and executeTests returns repeatTimes rounds.
C14_CellFailureIsolated ==
  /\ bpc \in {"cell", "report", "done"}
  /\ \A r \in DOMAIN allTestResults :
       /\ allTestResults[r].round = r
       /\ RoundShape(allTestResults[r].results, r, Len(queries))
  /\ bpc = "cell" =>
       /\ Len(allTestResults) = bRound - 1
       /\ RoundShape(roundResults, bRound, queryIndex - 1)
  /\ bpc \in {"report", "done"} =>
       /\ Len(allTestResults) = batchRepeatTimes
       /\ roundResults = <<>>

\* a run of two rounds over two queries whose first cell threw and whose
\* later cells were evaluated
C14_Witness ==
  /\ bpc = "done"
  /\ Len(queries) = 2 /\ batchRepeatTimes = 2
  /\ thrownCells = {<<1, 1>>}
  /\ allTestResults[1].results[1].error
  /\ ~allTestResults[1].results[2].error
  /\ ~allTestResults[2].results[2].error

\* C15: the number of outer rounds is configurable independently of the inner
\* repeat count, through the repeatTimes option of runBatchEvaluation: when
\* the option is given, executeTests performs that many outer rounds while
\* each provider evaluation performs the configured inner rounds.
C15_RepeatOptionSetsRounds ==
  (bpc = "done" /\ optRepeat # 0) =>
    /\ finalReport.total_rounds = optRepeat
    /\ \A c \in RecordedCells : \A i \in DOMAIN c.engines :
         ~c.engines[i].error => c.engines[i].repeatTimes = RepeatTimesOf(cfgRepeat)

\* the cells of the finished rounds, in execution order
BatchCells == Flatten(allTestResults)

\* the cells in which the provider was evaluated without error
SampleCells(name) ==
  {k \in DOMAIN BatchCells :
     /\ ~BatchCells[k].error
     /\ \E i \in DOMAIN BatchCells[k].engines :
          BatchCells[k].engines[i].engine = name /\ ~BatchCells[k].engines[i].error}

\* the weighted score of the provider on the scale in each of those cells
SampleOf(name, scale) ==
  [k \in SampleCells(name) |->
     LET i == CHOOSE j \in DOMAIN BatchCells[k].engines :
                BatchCells[k].engines[j].engine = name
     IN  BatchCells[k].engines[i].averageScores[scale].weighted]

\* C16: for each provider and scale the statistics aggregateResults reports
\* are those of the sample of the provider's weighted scores over the cells
\* where it was evaluated without error: count is the sample size, mean is
\* sum / count, min and max are the sample extremes with min <= mean <= max,
\* std_dev is the population standard deviation and range is max - min.
C16_SampleStatistics ==
  bpc = "done" =>
    \A e \in DOMAIN finalReport.aggregated_results.engine_performance :
      \A s \in ScaleNames :
        LET p == finalReport.aggregated_results.engine_performance[e]
            I == SampleCells(p.engine)
            x == SampleOf(p.engine, s)
        IN  /\ s \in DOMAIN p.performance.average_scores <=> I # {}
            /\ I # {} =>
                 LET a == p.performance.average_scores[s]
                 IN  /\ a.count = Cardinality(I)
                     /\ RatMul(a.mean, Num(a.count)) = SumOver(I, x)
                     /\ \E k \in I : x[k] = a.min
                     /\ \E k \in I : x[k] = a.max
                     /\ \A k \in I : RatLE(a.min, x[k]) /\ RatLE(x[k], a.max)
                     /\ RatLE(a.min, a.mean) /\ RatLE(a.mean, a.max)
                     /\ RatMul(a.std_dev.sqrtOf, Num(a.count)) =
                          SumOver(I, [k \in I |-> RatMul(RatSub(x[k], a.mean),
                                                         RatSub(x[k], a.mean))])
                     /\ p.performance.score_stability[s].range = RatSub(a.max, a.min)

\* the cells in which the provider has an entry
EntryCells(name) ==
  {k \in DOMAIN BatchCells :
     /\ ~BatchCells[k].error
     /\ \E i \in DOMAIN BatchCells[k].engines : BatchCells[k].engines[i].engine = name}

\* C18: for every provider in engine_performance, success_rate is the number
\* of cells where its entry has no error divided by the number of cells where
\* it has an entry; that number is at least 1, the rate is in [0, 1], and it
\* is exactly 1 for a provider that succeeds in every cell.
C18_SuccessRate ==
  bpc = "done" =>
    \A e \in DOMAIN finalReport.aggregated_results.engine_performance :
      LET p == finalReport.aggregated_results.engine_performance[e]
          total == Cardinality(EntryCells(p.engine))
          good == Cardinality(SampleCells(p.engine))
          rate == p.performance.success_rate
      IN  /\ total >= 1
          /\ RatMul(rate, Num(total)) = Num(good)
          /\ RatLE(Num(0), rate) /\ RatLE(rate, Num(1))
          /\ good = total => rate = Num(1)

\* one provider failed in one of its two cells, the other succeeded in both
C18_Witness ==
  /\ bpc = "done"
  /\ Len(enabled) = 2
  /\ \A i \in 1..2 : Cardinality(EntryCells(enabled[i])) = 2
  /\ HasBatchMean(enabled[1], "binary")
  /\ PerformanceOf(enabled[1]).success_rate = Norm(1, 2)
  /\ PerformanceOf(enabled[2]).success_rate = Num(1)

\* C19: the batch rankings exclude what generateSummary excludes per query: a
\* provider listed in the batch ranking of a scale has a successfully
\* computed score on that scale, and a provider listed in the combined
\* ranking has one on some scale.
C19_UnscoredExcluded ==
  bpc = "done" =>
    /\ \A s \in ScaleNames :
         \A i \in DOMAIN finalReport.engine_rankings[s] :
           HasBatchMean(finalReport.engine_rankings[s][i].engine, s)
    /\ \A i \in DOMAIN finalReport.engine_rankings["combined"] :
         \E s \in ScaleNames :
           HasBatchMean(finalReport.engine_rankings["combined"][i].engine, s)

-----------------------------------------------------------------------------
(* WebSearchEvaluationSystem: initialize (ConfigManager.loadConfig and      *)
(* validateConfig, then the three managers), evaluateSingleQuery and        *)
(* runBatchEvaluation behind ensureInitialized.  Weights are written in     *)
(* thousandths, and repeat_times of the configuration file is 1.            *)

MaxSearchCalls == 4     \* search calls of a run are counted up to MaxSearchCalls
MaxJudgeCalls == 24     \* judge calls of a run are counted up to MaxJudgeCalls

WeightOne == 1000       \* 1.0 in thousandths
WeightTolerance == 10   \* 0.01 in thousandths

\* evaluation.dimensions of the file, by its weights: sums 0.5, 1.0, 1.0,
\* 0.995, 1.005, 1.02, 0.98 and the empty list
WeightLists == {<<500>>, <<500, 300, 200>>, <<700, 300>>, <<500, 495>>,
                <<600, 405>>, <<600, 420>>, <<500, 480>>, <<>>}

\* the file at configPath: whether it exists, and which parts of its JSON
\* content are there; enabled is the number of providers with enabled: true
NoFile ==
  [exists |-> FALSE, model_key |-> FALSE, search_engines |-> FALSE, enabled |-> 0,
   dimensions |-> FALSE, weights |-> <<>>, prompts |-> FALSE]

ConfigFiles ==
  {NoFile} \cup
  [exists : {TRUE}, model_key : BOOLEAN, search_engines : BOOLEAN,
   enabled : 0..MaxEngines, dimensions : BOOLEAN, weights : WeightLists,
   prompts : BOOLEAN]

RECURSIVE TotalWeight(_)
TotalWeight(w) == IF w = <<>> THEN 0 ELSE Head(w) + TotalWeight(Tail(w))

\* variant: the sum is only checked from above
WeightsValid_OneSided(w) == ~(TotalWeight(w) - WeightOne > WeightTolerance)

\* not (Math.abs(totalWeight - 1.0) > 0.01)
WeightsValid(w) == ~(Abs(TotalWeight(w) - WeightOne) > WeightTolerance)

\* validateConfig returns without throwing
validateConfig(f) ==
  /\ f.model_key
  /\ f.search_engines
  /\ f.dimensions
  /\ WeightsValid(f.weights)

\* loadConfig resolves
loadConfig(f) == f.exists /\ validateConfig(f)

\* the number of managers the try block of initialize constructs before it
\* ends: the EvaluationManager constructor reads prompts.binary
ManagersBuilt(f) == IF f.prompts THEN 3 ELSE 1

InitConfig ==
  /\ configFile \in {f \in ConfigFiles : f.search_engines \/ f.enabled = 0}
  /\ config = <<>>
  /\ managers = 0
  /\ initialized = "idle"
  /\ lastCall = "idle"
  /\ searchCalls = 0
  /\ judgeRequests = 0
  /\ JudgeIdle /\ CwIdle /\ EvalIdle /\ BatchIdle /\ StatIdle /\ RunIdle

Initialize ==
  /\ IF loadConfig(configFile)
     THEN /\ config' = <<configFile>>
          /\ managers' = ManagersBuilt(configFile)
          /\ initialized' = IF ManagersBuilt(configFile) = 3 THEN "ok" ELSE "failed"
     ELSE /\ initialized' = "failed"
          /\ UNCHANGED <<config, managers>>
  /\ lastCall' = IF initialized' = "ok" THEN "initialize:ok" ELSE "initialize:error"
  /\ UNCHANGED <<configFile, searchCalls, judgeRequests,
                 judgeVars, cwVars, evalVars, batchVars, statVars,
                 runVars>>

\* searchWithAllEngines and evaluateQuery for one query: one search call per
\* enabled provider, then 2 * D judge calls (repeat_times 1) for each of the
\* ok providers that returned results
SearchAndEvaluate(ok) ==
  /\ searchCalls' = searchCalls + config[1].enabled
  /\ judgeRequests' = judgeRequests + ok * 2 * Len(config[1].weights)

EvaluateSingleQuery ==
  /\ IF config = <<>>
     THEN /\ lastCall' = "evaluateSingleQuery:notInitialized"
          /\ UNCHANGED <<searchCalls, judgeRequests>>
     ELSE IF config[1].enabled = 0
     THEN /\ lastCall' = "evaluateSingleQuery:error"
          /\ UNCHANGED <<searchCalls, judgeRequests>>
     ELSE IF managers < 2
     THEN /\ searchCalls + config[1].enabled <= MaxSearchCalls
          /\ searchCalls' = searchCalls + config[1].enabled
          /\ lastCall' = "evaluateSingleQuery:error"
          /\ UNCHANGED judgeRequests
     ELSE \E ok \in 0..config[1].enabled :
          /\ searchCalls + config[1].enabled <= MaxSearchCalls
          /\ judgeRequests + ok * 2 * Len(config[1].weights) <= MaxJudgeCalls
          /\ SearchAndEvaluate(ok)
          /\ lastCall' = "evaluateSingleQuery:ok"
  /\ UNCHANGED <<configFile, config, managers, initialized,
                 judgeVars, cwVars, evalVars, batchVars, statVars,
                 runVars>>

\* runBatchTest with one query: the cell either throws before any search
\* call (no provider enabled) and is recorded, or is searched and evaluated
RunBatchEvaluation ==
  /\ IF config = <<>>
     THEN /\ lastCall' = "runBatchEvaluation:notInitialized"
          /\ UNCHANGED <<searchCalls, judgeRequests>>
     ELSE IF managers < 3
     THEN /\ lastCall' = "runBatchEvaluation:error"
          /\ UNCHANGED <<searchCalls, judgeRequests>>
     ELSE IF config[1].enabled = 0
     THEN /\ lastCall' = "runBatchEvaluation:ok"
          /\ UNCHANGED <<searchCalls, judgeRequests>>
     ELSE \E ok \in 0..config[1].enabled :
          /\ searchCalls + config[1].enabled <= MaxSearchCalls
          /\ judgeRequests + ok * 2 * Len(config[1].weights) <= MaxJudgeCalls
          /\ SearchAndEvaluate(ok)
          /\ lastCall' = "runBatchEvaluation:ok"
  /\ UNCHANGED <<configFile, config, managers, initialized,
                 judgeVars, cwVars, evalVars, batchVars, statVars,
                 runVars>>

NextConfig == Initialize \/ EvaluateSingleQuery \/ RunBatchEvaluation

SpecConfig == InitConfig /\ [][NextConfig]_vars

\* the file passes every check of validateConfig before the weight check
ReachesWeightCheck(f) == f.exists /\ f.model_key /\ f.search_engines /\ f.dimensions

\* C20: when the weights of the configuration sum to a value more than 0.01
\* away from 1.0, initialize fails, the system keeps no configuration, and
\* evaluateSingleQuery and runBatchEvaluation end at ensureInitialized with no
\* search or judge call made; a configuration that reaches the weight check
\* with a sum within 0.01 of 1.0 passes it and is kept by initialize.
C20_InvalidWeightsRejected ==
  /\ Abs(TotalWeight(configFile.weights) - WeightOne) > WeightTolerance =>
       /\ config = <<>> /\ managers = 0
       /\ initialized \in {"idle", "failed"}
       /\ lastCall \in {"idle", "initialize:error",
                        "evaluateSingleQuery:notInitialized",
                        "runBatchEvaluation:notInitialized"}
       /\ searchCalls = 0 /\ judgeRequests = 0
  /\ (/\ ReachesWeightCheck(configFile)
      /\ Abs(TotalWeight(configFile.weights) - WeightOne) <= WeightTolerance
      /\ initialized # "idle") => config = <<configFile>>

\* weights summing to 0.5: initialize has failed and a later
\* evaluateSingleQuery ended at ensureInitialized
C20_Witness ==
  /\ ReachesWeightCheck(configFile)
  /\ configFile.weights = <<500>>
  /\ configFile.enabled > 0 /\ configFile.prompts
  /\ initialized = "failed"
  /\ lastCall = "evaluateSingleQuery:notInitialized"
  /\ searchCalls = 0 /\ judgeRequests = 0

-----------------------------------------------------------------------------
(* The statistics of aggregateResults in IEEE 754 double arithmetic.        *)
(* A natural number is a sequence of limbs in base 2^15, lowest limb first, *)
(* without leading zero limbs.  A double is sgn * m * 2^e with m either 0   *)
(* or a natural of exactly 53 bits; the values here are far from overflow   *)
(* and underflow, and the sign of zero is not kept.                         *)

LimbBits == 15
LimbBase == 2^LimbBits
MantissaBits == 53

RECURSIVE BNorm(_)
BNorm(x) ==
  IF x = <<>> THEN <<>>
  ELSE IF x[Len(x)] = 0 THEN BNorm(SubSeq(x, 1, Len(x) - 1)) ELSE x

RECURSIVE BOfInt(_)
BOfInt(i) == IF i = 0 THEN <<>> ELSE <<i % LimbBase>> \o BOfInt(i \div LimbBase)

RECURSIVE BAddC(_, _, _)
BAddC(x, y, c) ==
  IF x = <<>> /\ y = <<>> THEN (IF c = 0 THEN <<>> ELSE <<c>>)
  ELSE LET a == IF x = <<>> THEN 0 ELSE Head(x)
           b == IF y = <<>> THEN 0 ELSE Head(y)
           s == a + b + c
       IN  <<s % LimbBase>> \o BAddC(IF x = <<>> THEN <<>> ELSE Tail(x),
                                     IF y = <<>> THEN <<>> ELSE Tail(y),
                                     s \div LimbBase)

BAdd(x, y) == BAddC(x, y, 0)

\* x - y for x >= y
RECURSIVE BSubC(_, _, _)
BSubC(x, y, borrow) ==
  IF x = <<>> THEN <<>>
  ELSE LET b == IF y = <<>> THEN 0 ELSE Head(y)
           d == Head(x) - b - borrow
       IN  <<(d + LimbBase) % LimbBase>> \o
           BSubC(Tail(x), IF y = <<>> THEN <<>> ELSE Tail(y), IF d < 0 THEN 1 ELSE 0)

BSub(x, y) == BNorm(BSubC(x, y, 0))

\* -1, 0 or 1 as x is less than, equal to or greater than y
RECURSIVE BCmp(_, _)
BCmp(x, y) ==
  IF Len(x) # Len(y) THEN (IF Len(x) < Len(y) THEN -1 ELSE 1)
  ELSE IF x = <<>> THEN 0
  ELSE IF x[Len(x)] # y[Len(y)] THEN (IF x[Len(x)] < y[Len(y)] THEN -1 ELSE 1)
  ELSE BCmp(SubSeq(x, 1, Len(x) - 1), SubSeq(y, 1, Len(y) - 1))

\* x * k + c for a limb k
RECURSIVE BMulSmall(_, _, _)
BMulSmall(x, k, c) ==
  IF x = <<>> THEN (IF c = 0 THEN <<>> ELSE <<c>>)
  ELSE <<(Head(x) * k + c) % LimbBase>> \o
       BMulSmall(Tail(x), k, (Head(x) * k + c) \div LimbBase)

RECURSIVE BMul(_, _)
BMul(x, y) ==
  IF x = <<>> \/ y = <<>> THEN <<>>
  ELSE BNorm(BAdd(BMulSmall(x, Head(y), 0), <<0>> \o BMul(x, Tail(y))))

\* x * 2^k
BShl(x, k) ==
  BNorm([i \in 1..(k \div LimbBits) |-> 0] \o BMulSmall(x, 2^(k % LimbBits), 0))

\* quotient and remainder of x by n, 0 < n < 2^15
RECURSIVE BDivSmallR(_, _)
BDivSmallR(x, n) ==
  IF x = <<>> THEN [q |-> <<>>, r |-> 0]
  ELSE LET hi == BDivSmallR(Tail(x), n)
           cur == hi.r * LimbBase + Head(x)
       IN  [q |-> <<cur \div n>> \o hi.q, r |-> cur % n]

BDivSmall(x, n) == [q |-> BNorm(BDivSmallR(x, n).q), r |-> BDivSmallR(x, n).r]

\* floor(x / 2^k) and x mod 2^k
BShr(x, k) ==
  IF k \div LimbBits >= Len(x) THEN <<>>
  ELSE BDivSmall(SubSeq(x, (k \div LimbBits) + 1, Len(x)), 2^(k % LimbBits)).q

BLow(x, k) == BSub(x, BShl(BShr(x, k), k))

RECURSIVE BitLenInt(_)
BitLenInt(i) == IF i = 0 THEN 0 ELSE 1 + BitLenInt(i \div 2)

BBitLen(x) ==
  IF x = <<>> THEN 0 ELSE LimbBits * (Len(x) - 1) + BitLenInt(x[Len(x)])

BOdd(x) == x # <<>> /\ Head(x) % 2 = 1

DZero == [sgn |-> 1, m |-> <<>>, e |-> 0]

\* the double nearest to sgn * (m * 2^e + t) for a natural m > 0 and
\* 0 <= t < 2^e, with t > 0 iff sticky; ties go to the even mantissa
Round53(sgn, m, e, sticky) ==
  LET len == BBitLen(m)
  IN  IF len <= MantissaBits
      THEN [sgn |-> sgn, m |-> BShl(m, MantissaBits - len), e |-> e - (MantissaBits - len)]
      ELSE LET r    == len - MantissaBits
               q    == BShr(m, r)
               c    == BCmp(BLow(m, r), BShl(<<1>>, r - 1))
               up   == c = 1 \/ (c = 0 /\ (sticky \/ BOdd(q)))
               q2   == IF up THEN BAdd(q, <<1>>) ELSE q
           IN  IF BBitLen(q2) > MantissaBits
               THEN [sgn |-> sgn, m |-> BShr(q2, 1), e |-> e + r + 1]
               ELSE [sgn |-> sgn, m |-> q2, e |-> e + r]

\* a + b
DAdd(a, b) ==
  IF a.m = <<>> THEN b
  ELSE IF b.m = <<>> THEN a
  ELSE LET e0 == IF a.e < b.e THEN a.e ELSE b.e
           ma == BShl(a.m, a.e - e0)
           mb == BShl(b.m, b.e - e0)
       IN  IF a.sgn = b.sgn THEN Round53(a.sgn, BAdd(ma, mb), e0, FALSE)
           ELSE IF BCmp(ma, mb) = 0 THEN DZero
           ELSE IF BCmp(ma, mb) = 1 THEN Round53(a.sgn, BSub(ma, mb), e0, FALSE)
           ELSE Round53(b.sgn, BSub(mb, ma), e0, FALSE)

\* a - b
DSub(a, b) == DAdd(a, [b EXCEPT !.sgn = -b.sgn])

\* a * b
DMul(a, b) ==
  IF a.m = <<>> \/ b.m = <<>> THEN DZero
  ELSE Round53(a.sgn * b.sgn, BMul(a.m, b.m), a.e + b.e, FALSE)

\* a / n for an integer 0 < n < 2^15
DDivInt(a, n) ==
  IF a.m = <<>> THEN DZero
  ELSE LET d == BDivSmall(BShl(a.m, 4 * LimbBits), n)
       IN  Round53(a.sgn, d.q, a.e - 4 * LimbBits, d.r # 0)

\* the double of a natural number and of the decimal literal n / d
DOfInt(i) == IF i = 0 THEN DZero ELSE Round53(1, BOfInt(i), 0, FALSE)
DOfRat(n, d) == DDivInt(DOfInt(n), d)

\* a > 0
DPositive(a) == a.m # <<>> /\ a.sgn = 1

-----------------------------------------------------------------------------
(* aggregateResults on one provider's sample of weighted scores, computed   *)
(* in doubles as the code computes it                                       *)

MaxSample == 3          \* a sample holds 1..MaxSample weighted scores

\* weighted scores of a cell: 0, 2, 4 and 5 (one dimension of weight 1.0),
\* 0.7 (binary scores 1 and 0 under weights 0.7 and 0.3) and 1.6 (binary
\* scores 2, 2 and 0 under weights 0.5, 0.3 and 0.2)
SampleValues ==
  {DOfInt(0), DOfInt(2), DOfInt(4), DOfInt(5), DOfRat(7, 10), DOfRat(8, 5)}

InitStats ==
  /\ \E n \in 1..MaxSample : sample \in [1..n -> SampleValues]
  /\ statistics = <<>>
  /\ JudgeIdle /\ CwIdle /\ EvalIdle /\ BatchIdle /\ SysIdle /\ RunIdle

\* scores.reduce((sum, score) => sum + score, 0)
RECURSIVE DSumFrom(_, _)
DSumFrom(sum, q) == IF q = <<>> THEN sum ELSE DSumFrom(DAdd(sum, Head(q)), Tail(q))

DMean(q) == DDivInt(DSumFrom(DZero, q), Len(q))

\* scores.reduce((sum, score) => sum + Math.pow(score - mean, 2), 0) / length
DVariance(q, mean) ==
  DDivInt(DSumFrom(DZero, [i \in DOMAIN q |->
                             DMul(DSub(q[i], mean), DSub(q[i], mean))]),
          Len(q))

RECURSIVE DMinOf(_)
DMinOf(q) ==
  IF Len(q) = 1 THEN q[1]
  ELSE IF DPositive(DSub(DMinOf(Tail(q)), Head(q))) THEN Head(q) ELSE DMinOf(Tail(q))

RECURSIVE DMaxOf(_)
DMaxOf(q) ==
  IF Len(q) = 1 THEN q[1]
  ELSE IF DPositive(DSub(Head(q), DMaxOf(Tail(q)))) THEN Head(q) ELSE DMaxOf(Tail(q))

\* Math.sqrt(variance) / mean, kept by its operands: it is 0 iff variance is 0
DSqrtOver(variance, mean) == [sqrtOf |-> variance, over |-> mean]

\* average_scores[scoringType] and score_stability[scoringType] of a sample
DStatistics(q) ==
  LET mean == DMean(q)
      variance == DVariance(q, mean)
  IN  [mean |-> mean,
       min |-> DMinOf(q),
       max |-> DMaxOf(q),
       std_dev |-> Sqrt(variance),
       count |-> Len(q),
       coefficient_of_variation |->
         IF DPositive(mean) THEN DSqrtOver(variance, mean)
         ELSE DSqrtOver(DZero, DOfInt(1)),
       range |-> DSub(DMaxOf(q), DMinOf(q))]

ComputeStatistics ==
  /\ statistics = <<>>
  /\ statistics' = DStatistics(sample)
  /\ UNCHANGED <<sample, judgeVars, cwVars, evalVars, batchVars, sysVars,
                 runVars>>

NextStats == ComputeStatistics

SpecStats == InitStats /\ [][NextStats]_vars

\* C17: coefficient_of_variation is std_dev / mean, and 0 when the mean is 0;
\* a sample whose values are all equal has std_dev and
\* coefficient_of_variation exactly 0, and a sample with two different values
\* and a positive mean has both strictly greater than 0.
C17_CoefficientOfVariation ==
  statistics # <<>> =>
    LET cv == statistics.coefficient_of_variation
        allEqual == \A i, j \in DOMAIN sample : sample[i] = sample[j]
    IN  /\ DPositive(statistics.mean) =>
             cv = DSqrtOver(statistics.std_dev.sqrtOf, statistics.mean)
        /\ statistics.mean = DZero => cv.sqrtOf = DZero
        /\ allEqual => statistics.std_dev.sqrtOf = DZero /\ cv.sqrtOf = DZero
        /\ (~allEqual /\ DPositive(statistics.mean)) =>
             DPositive(statistics.std_dev.sqrtOf) /\ DPositive(cv.sqrtOf)

-----------------------------------------------------------------------------
(* Properties of callAIModel for every maxRetries and of parseAIResponse.   *)

\* the ways callAIModel is left: a return of the response, a throw, or the
\* end of the function body
CallLeft == jpc \in {"returned", "thrown", "fellThrough"}

\* C28: callAIModel never completes normally without a successful judge
\* response: for every maxRetries, zero included, it either returns the
\* response of a successful HTTP attempt or throws.
C28_ReturnsResponseOrThrows ==
  CallLeft =>
    \/ /\ jpc = "returned"
       /\ httpLog # <<>>
       /\ httpLog[Len(httpLog)].ev = "ok"
    \/ jpc = "thrown"

\* the result the stated priority order gives for a response: the first tag
\* when its content is a bare number or a JSON object, else the first JSON
\* object of the text, else the first number of the text, else the flagged
\* error record
StatedParse(resp) ==
  LET tags    == {i \in DOMAIN resp : resp[i].t = "tag"}
      objects == {i \in DOMAIN resp : resp[i].t = "json"}
      numbers == {i \in DOMAIN resp : SegHasNumber(resp[i])}
      rest ==
        IF objects # {}
        THEN JsonObject(resp[Min(objects)].score)
        ELSE IF numbers # {}
        THEN [score |-> JsNum(Norm(SegNumber(resp[Min(numbers)]), 10)),
              reasoning |-> Raw(resp), error |-> FALSE]
        ELSE ParseError(resp)
  IN  IF tags # {} /\ resp[Min(tags)].inner.t = "bare"
      THEN [score |-> JsNum(Norm(resp[Min(tags)].inner.v, 10)),
            reasoning |-> Raw(resp), error |-> FALSE]
      ELSE IF tags # {} /\ resp[Min(tags)].inner.t = "json"
      THEN JsonObject(resp[Min(tags)].inner.score)
      ELSE rest

\* C27: parseAIResponse takes the score of a bare number in the result tag,
\* the score and reasoning of a JSON object in the result tag, else those of
\* the first JSON object of the text, else the first number of the text with
\* the full text as reasoning, else it returns the flagged error record.
C27_ParsePriority ==
  jpc = "scored" => parseAIResponse(jContent) = StatedParse(jContent)

-----------------------------------------------------------------------------
(* Properties of the stability column of the batch rankings *)

\* C29: in each batch per-scale ranking entry, stability is
\* 1 - coefficient_of_variation for every provider that has at least one
\* sample on that scale; a provider whose samples are all identical
\* (coefficient of variation 0) has stability 1.
C29_StabilityIsOneMinusCv ==
  bpc = "done" =>
    \A s \in ScaleNames :
      \A i \in DOMAIN finalReport.engine_rankings[s] :
        LET entry == finalReport.engine_rankings[s][i]
            p == PerformanceOf(entry.engine)
        IN  s \in DOMAIN p.score_stability =>
              entry.stability.oneMinusSqrtOf =
                p.score_stability[s].coefficient_of_variation.sqrtOf

-----------------------------------------------------------------------------
(* Bounds of the weighted scores and of the means built from them *)

\* the dimensions of a recorded round that were scored without error
ScoredDims(r) ==
  {n \in DOMAIN r.overallScores : ~r.overallScores[n].error}

\* the round was recorded without error and has a scored dimension
HasScoredDim(r) == IsValidRound(r) /\ ScoredDims(r) # {}

InScale(q, scale) ==
  RatLE(Num(ScaleMin(scale)), q) /\ RatLE(q, Num(ScaleMax(scale)))

\* every round behind the provider's mean on the scale has a scored dimension
FromScoredRounds(e, scale) ==
  /\ ~e.error
  /\ scale \in DOMAIN e.averageScores
  /\ e.averageScores[scale].validRounds > 0
  /\ \A k \in DOMAIN e.scores[scale] :
       IsValidRound(e.scores[scale][k]) => HasScoredDim(e.scores[scale][k])

\* C30: with positive dimension weights, the weightedScore of a round with
\* at least one dimension scored without error lies between the least and
\* the greatest of those dimension scores and within the bounds of the scale
\* (0..2 binary, 1..5 five-point); so does every provider mean and every
\* batch mean built only from such rounds.
C30_WeightedScoreInScale ==
  /\ \A c \in RecordedCells : \A i \in DOMAIN c.engines : \A s \in ScaleNames :
       LET e == c.engines[i]
       IN  /\ ~e.error =>
                \A k \in DOMAIN e.scores[s] :
                  LET r == e.scores[s][k]
                  IN  HasScoredDim(r) =>
                        /\ \E n \in ScoredDims(r) :
                             RatLE(r.overallScores[n].score, r.weightedScore)
                        /\ \E n \in ScoredDims(r) :
                             RatLE(r.weightedScore, r.overallScores[n].score)
                        /\ InScale(r.weightedScore, s)
           /\ FromScoredRounds(e, s) => InScale(e.averageScores[s].weighted, s)
  /\ bpc = "done" =>
       \A j \in DOMAIN finalReport.aggregated_results.engine_performance :
         \A s \in ScaleNames :
           LET p == finalReport.aggregated_results.engine_performance[j]
           IN  (/\ s \in DOMAIN p.performance.average_scores
                /\ \A k \in SampleCells(p.engine) : \A i \in DOMAIN BatchCells[k].engines :
                     BatchCells[k].engines[i].engine = p.engine =>
                       FromScoredRounds(BatchCells[k].engines[i], s))
                 => InScale(p.performance.average_scores[s].mean, s)

-----------------------------------------------------------------------------
(* The schedule of a batch run: runBatchTest step by step.  executeTests   *)
(* starts a cell, searchWithAllEngines fans out and awaits the searches,   *)
(* evaluateQuery walks the providers, evaluateEngineResults the rounds and *)
(* the two scorers, batchScore the dimensions, and callAIModel (CallLoop,  *)
(* HttpOk, HttpFail, BackoffElapsed above) the HTTP attempts.  Only what   *)
(* decides the order of these steps is kept: a cell record is its query,   *)
(* round, index and error flag, a round entry is its round number, and a   *)
(* dimension record is its error flag.                                     *)

DefaultDelayMs == 2000       \* options.delayMs || 2000
DefaultRoundDelayMs == 5000  \* options.roundDelayMs || 5000

\* the options of executeTests: both delays absent, or both given
DelayOptions ==
  {[delayMs |-> 0, roundDelayMs |-> 0], [delayMs |-> 500, roundDelayMs |-> 1500]}

DelayMs == IF options.delayMs = 0 THEN DefaultDelayMs ELSE options.delayMs
RoundDelayMs ==
  IF options.roundDelayMs = 0 THEN DefaultRoundDelayMs ELSE options.roundDelayMs

CellStart(r, i) == [ev |-> "cell", round |-> r, index |-> i]
Delay(ms) == [ev |-> "delay", ms |-> ms]

\* what no step of the run changes
runConfig ==
  <<cfgRepeat, optRepeat, queries, enabled, cellMenu, batchRepeatTimes,
    repeatTimes, stub, summary, judgeOutcomes, options,
    maxRetries, jScale, jContent, jRecord, cwVars, statVars, sysVars>>

InitRun ==
  /\ bpc = "cell"
  /\ cfgRepeat \in 0..MaxBatchRounds
  /\ optRepeat = 0
  /\ batchRepeatTimes = RepeatTimesOf(cfgRepeat)
  /\ repeatTimes = RepeatTimesOf(cfgRepeat)
  /\ \E n \in 1..MaxQueries :
       /\ n * batchRepeatTimes <= MaxCells
       /\ queries = [i \in 1..n |-> QueryNames[i]]
  /\ \E n \in 0..MaxEngines : enabled = [i \in 1..n |-> EngineNames[i]]
  /\ options \in DelayOptions
  /\ cellMenu = <<>>
  /\ bRound = 1 /\ queryIndex = 1
  /\ roundResults = <<>> /\ allTestResults = <<>>
  /\ thrownCells = {} /\ finalReport = <<>>
  /\ pc = "idle" /\ searchResults = <<>> /\ stub = <<>>
  /\ engineIdx = 1 /\ round = 1 /\ scaleIdx = 1 /\ dimIdx = 1
  /\ dimensionScores = <<>> /\ scores = <<>> /\ engines = <<>>
  /\ summary = <<>> /\ judgeCalls = <<>> /\ judgeOutcomes = <<>>
  /\ searchPromises = <<>> /\ invoked = <<>> /\ cellLog = <<>>
  /\ JudgeIdle /\ CwIdle /\ StatIdle /\ SysIdle

\* the delay after the round's last cell when another round follows
RoundDelay ==
  IF queryIndex = Len(queries) /\ bRound < batchRepeatTimes
  THEN <<Delay(RoundDelayMs)>> ELSE <<>>

\* the delay at the end of the try block
QueryDelay ==
  IF queryIndex < Len(queries) \/ bRound < batchRepeatTimes
  THEN <<Delay(DelayMs)>> ELSE <<>>

\* variant: no try/catch around the cell, the exception leaves executeTests
NoProviders_NoCatch ==
  /\ bpc = "cell" /\ pc = "idle"
  /\ enabled = <<>>
  /\ cellLog' = Append(cellLog, CellStart(bRound, queryIndex))
  /\ thrownCells' = thrownCells \cup {<<bRound, queryIndex>>}
  /\ bpc' = "thrown"
  /\ UNCHANGED <<bRound, queryIndex, roundResults, allTestResults, finalReport,
                 pc, searchResults, engineIdx, round, scaleIdx,
                 dimIdx, dimensionScores, scores, engines, judgeCalls,
                 jpc, attempt, httpLog, searchPromises, invoked, runConfig>>

\* a cell of executeTests when no provider is enabled: searchWithAllEngines
\* throws, the catch block records the cell, and the loops step on
NoProviders ==
  /\ bpc = "cell" /\ pc = "idle"
  /\ enabled = <<>>
  /\ cellLog' = Append(cellLog, CellStart(bRound, queryIndex)) \o RoundDelay
  /\ thrownCells' = thrownCells \cup {<<bRound, queryIndex>>}
  /\ AfterCell(ErrorCell(queries[queryIndex]))
  /\ UNCHANGED <<finalReport, pc, searchResults, engineIdx, round, scaleIdx,
                 dimIdx, dimensionScores, scores, engines, judgeCalls,
                 jpc, attempt, httpLog, searchPromises, invoked, runConfig>>

\* a cell of executeTests begins: searchWithAllEngines maps the enabled
\* providers to their search promises
BeginCell ==
  /\ bpc = "cell" /\ pc = "idle"
  /\ enabled # <<>>
  /\ cellLog' = Append(cellLog, CellStart(bRound, queryIndex))
  /\ searchPromises' = [i \in DOMAIN enabled |-> "pending"]
  /\ searchResults' = <<>>
  /\ engines' = <<>>
  /\ judgeCalls' = [i \in DOMAIN enabled |-> 0]
  /\ pc' = "searching"
  /\ UNCHANGED <<bpc, bRound, queryIndex, roundResults, allTestResults,
                 thrownCells, finalReport, engineIdx, round, scaleIdx,
                 dimIdx, dimensionScores, scores,
                 jpc, attempt, httpLog, invoked, runConfig>>

Pending == {i \in DOMAIN searchPromises : searchPromises[i] = "pending"}

\* one provider's promise settles: searchWithEngine returned, or it threw
\* and the catch block of the map callback returned the error entry
SearchSettles ==
  /\ pc = "searching"
  /\ \E i \in Pending : \E k \in SearchKinds :
       searchPromises' = [searchPromises EXCEPT ![i] = k]
  /\ UNCHANGED <<bpc, bRound, queryIndex, roundResults, allTestResults,
                 thrownCells, finalReport, pc, searchResults, engineIdx, round,
                 scaleIdx, dimIdx, dimensionScores, scores, engines, judgeCalls,
                 jpc, attempt, httpLog, invoked, cellLog, runConfig>>

\* the entries of the promises in S, in the order of the promises
RECURSIVE SettledEntries(_, _)
SettledEntries(S, i) ==
  IF i > Len(searchPromises) THEN <<>>
  ELSE (IF i \in S
        THEN <<[engine |-> enabled[i], kind |-> searchPromises[i]]>>
        ELSE <<>>) \o SettledEntries(S, i + 1)

\* variant: the call resolves as soon as one promise has settled, with the
\* entries that exist by then
SearchesResolved_First ==
  /\ pc = "searching"
  /\ Pending # DOMAIN searchPromises
  /\ searchResults' = SettledEntries(DOMAIN searchPromises \ Pending, 1)
  /\ engineIdx' = 1
  /\ pc' = "engine"
  /\ UNCHANGED <<bpc, bRound, queryIndex, roundResults, allTestResults,
                 thrownCells, finalReport, round, scaleIdx, dimIdx,
                 dimensionScores, scores, engines, judgeCalls,
                 jpc, attempt, httpLog, searchPromises, invoked, cellLog,
                 runConfig>>

\* await Promise.all(searchPromises): every promise has settled, and
\* evaluateQuery starts on the results
SearchesResolved ==
  /\ pc = "searching"
  /\ Pending = {}
  /\ searchResults' = SettledEntries(DOMAIN searchPromises, 1)
  /\ engineIdx' = 1
  /\ pc' = "engine"
  /\ UNCHANGED <<bpc, bRound, queryIndex, roundResults, allTestResults,
                 thrownCells, finalReport, round, scaleIdx, dimIdx,
                 dimensionScores, scores, engines, judgeCalls,
                 jpc, attempt, httpLog, searchPromises, invoked, cellLog,
                 runConfig>>

\* evaluateQuery at a provider whose entry has an error or no results array:
\* the continue, or the catch block around evaluateEngineResults
ProviderSkipped ==
  /\ pc = "engine"
  /\ engineIdx <= Len(searchResults)
  /\ searchResults[engineIdx].kind # "ok"
  /\ engines' = Append(engines, ErrorEntry(searchResults[engineIdx].engine))
  /\ engineIdx' = engineIdx + 1
  /\ UNCHANGED <<bpc, bRound, queryIndex, roundResults, allTestResults,
                 thrownCells, finalReport, pc, searchResults, round, scaleIdx,
                 dimIdx, dimensionScores, scores, judgeCalls,
                 jpc, attempt, httpLog, searchPromises, invoked, cellLog,
                 runConfig>>

\* evaluateEngineResults begins for a provider with results
BeginProvider ==
  /\ pc = "engine"
  /\ engineIdx <= Len(searchResults)
  /\ searchResults[engineIdx].kind = "ok"
  /\ scores' = [binary |-> <<>>, five_point |-> <<>>]
  /\ round' = 1 /\ scaleIdx' = 1 /\ dimIdx' = 1
  /\ dimensionScores' = <<>>
  /\ invoked' = <<>>
  /\ pc' = "dimension"
  /\ UNCHANGED <<bpc, bRound, queryIndex, roundResults, allTestResults,
                 thrownCells, finalReport, searchResults, engineIdx, engines,
                 judgeCalls, jpc, attempt, httpLog, searchPromises, cellLog,
                 runConfig>>

\* variant: batchScore does not await batchScoreDimension
BeginDimension_NoAwait ==
  /\ pc = "dimension"
  /\ jpc \in {"idle", "fetch"}
  /\ invoked' = Append(invoked, <<round, scaleIdx, dimIdx>>)
  /\ judgeCalls' = [judgeCalls EXCEPT ![engineIdx] = @ + 1]
  /\ attempt' = 1
  /\ jpc' = "loop"
  /\ UNCHANGED <<bpc, bRound, queryIndex, roundResults, allTestResults,
                 thrownCells, finalReport, pc, searchResults, engineIdx, round,
                 scaleIdx, dimIdx, dimensionScores, scores, engines,
                 httpLog, searchPromises, cellLog, runConfig>>

\* batchScore calls batchScoreDimension for the dimension it is at, and that
\* calls callAIModel(prompt)
BeginDimension ==
  /\ pc = "dimension"
  /\ jpc = "idle"
  /\ invoked' = Append(invoked, <<round, scaleIdx, dimIdx>>)
  /\ judgeCalls' = [judgeCalls EXCEPT ![engineIdx] = @ + 1]
  /\ attempt' = 1
  /\ jpc' = "loop"
  /\ UNCHANGED <<bpc, bRound, queryIndex, roundResults, allTestResults,
                 thrownCells, finalReport, pc, searchResults, engineIdx, round,
                 scaleIdx, dimIdx, dimensionScores, scores, engines,
                 httpLog, searchPromises, cellLog, runConfig>>

\* variant: the catch block of batchScore tries the dimension again
EndDimension_Retry ==
  /\ pc = "dimension"
  /\ jpc \in {"returned", "thrown"}
  /\ dimensionScores' =
       IF jpc = "thrown" THEN dimensionScores
       ELSE (Dimensions[dimIdx].name :> [error |-> FALSE]) @@ dimensionScores
  /\ jpc' = "idle"
  /\ attempt' = 1
  /\ httpLog' = <<>>
  /\ IF jpc = "thrown" THEN dimIdx' = dimIdx /\ pc' = "dimension"
     ELSE IF dimIdx < Len(Dimensions)
     THEN dimIdx' = dimIdx + 1 /\ pc' = "dimension"
     ELSE dimIdx' = dimIdx /\ pc' = "roundEnd"
  /\ UNCHANGED <<bpc, bRound, queryIndex, roundResults, allTestResults,
                 thrownCells, finalReport, searchResults, engineIdx, round,
                 scaleIdx, scores, engines, judgeCalls,
                 searchPromises, invoked, cellLog, runConfig>>

\* callAIModel has returned or thrown: batchScoreDimension returns its record
\* or throws, batchScore stores the record or the error record of its catch
\* block and goes to the next dimension
EndDimension ==
  /\ pc = "dimension"
  /\ jpc \in {"returned", "thrown"}
  /\ dimensionScores' =
       (Dimensions[dimIdx].name :> [error |-> jpc = "thrown"]) @@ dimensionScores
  /\ jpc' = "idle"
  /\ attempt' = 1
  /\ httpLog' = <<>>
  /\ IF dimIdx < Len(Dimensions)
     THEN dimIdx' = dimIdx + 1 /\ pc' = "dimension"
     ELSE dimIdx' = dimIdx /\ pc' = "roundEnd"
  /\ UNCHANGED <<bpc, bRound, queryIndex, roundResults, allTestResults,
                 thrownCells, finalReport, searchResults, engineIdx, round,
                 scaleIdx, scores, engines, judgeCalls,
                 searchPromises, invoked, cellLog, runConfig>>

\* variant: the loop over the scorers is the outer one, each scorer runs all
\* its rounds before the other scorer starts
EndRound_ScorerMajor ==
  /\ pc = "roundEnd"
  /\ scores' = PushRound(scores, Scales[scaleIdx], [round |-> round])
  /\ dimensionScores' = <<>>
  /\ dimIdx' = 1
  /\ IF round < repeatTimes
     THEN round' = round + 1 /\ scaleIdx' = scaleIdx /\ pc' = "dimension"
     ELSE IF scaleIdx < Len(Scales)
     THEN round' = 1 /\ scaleIdx' = scaleIdx + 1 /\ pc' = "dimension"
     ELSE scaleIdx' = 1 /\ round' = round /\ pc' = "engineEnd"
  /\ UNCHANGED <<bpc, bRound, queryIndex, roundResults, allTestResults,
                 thrownCells, finalReport, searchResults, engineIdx, engines,
                 judgeCalls, jpc, attempt, httpLog, searchPromises, invoked,
                 cellLog, runConfig>>

\* batchScore returns, evaluateEngineResults pushes the round entry of the
\* scorer and goes to the other scorer, the next round, or its end
EndRound ==
  /\ pc = "roundEnd"
  /\ scores' = PushRound(scores, Scales[scaleIdx], [round |-> round])
  /\ dimensionScores' = <<>>
  /\ dimIdx' = 1
  /\ IF scaleIdx < Len(Scales)
     THEN scaleIdx' = scaleIdx + 1 /\ round' = round /\ pc' = "dimension"
     ELSE IF round < repeatTimes
     THEN scaleIdx' = 1 /\ round' = round + 1 /\ pc' = "dimension"
     ELSE scaleIdx' = 1 /\ round' = round /\ pc' = "engineEnd"
  /\ UNCHANGED <<bpc, bRound, queryIndex, roundResults, allTestResults,
                 thrownCells, finalReport, searchResults, engineIdx, engines,
                 judgeCalls, jpc, attempt, httpLog, searchPromises, invoked,
                 cellLog, runConfig>>

\* evaluateEngineResults returns and evaluateQuery stores the provider
EndProvider ==
  /\ pc = "engineEnd"
  /\ engines' = Append(engines,
       [engine |-> searchResults[engineIdx].engine, error |-> FALSE,
        scores |-> scores])
  /\ scores' = <<>>
  /\ engineIdx' = engineIdx + 1
  /\ pc' = "engine"
  /\ UNCHANGED <<bpc, bRound, queryIndex, roundResults, allTestResults,
                 thrownCells, finalReport, searchResults, round, scaleIdx,
                 dimIdx, dimensionScores, judgeCalls,
                 jpc, attempt, httpLog, searchPromises, invoked, cellLog,
                 runConfig>>

\* evaluateQuery returns: executeTests pushes the result, waits delayMs
\* unless this was the last cell, and after the round's last cell pushes
\* the round and waits roundDelayMs unless it was the last round
EndCell ==
  /\ pc = "engine"
  /\ engineIdx > Len(searchResults)
  /\ AfterCell([query |-> queries[queryIndex], round |-> bRound,
                queryIndex |-> queryIndex - 1, error |-> FALSE])
  /\ cellLog' = cellLog \o QueryDelay \o RoundDelay
  /\ searchPromises' = <<>>
  /\ engineIdx' = 1
  /\ pc' = "idle"
  /\ UNCHANGED <<thrownCells, finalReport, searchResults, round, scaleIdx,
                 dimIdx, dimensionScores, scores, engines, judgeCalls,
                 jpc, attempt, httpLog, invoked, runConfig>>

\* executeTests has returned: generateFinalReport and the return of
\* runBatchTest; of the report only the round count is kept
EndRun ==
  /\ bpc = "report"
  /\ finalReport' = [total_rounds |-> Len(allTestResults)]
  /\ bpc' = "done"
  /\ UNCHANGED <<bRound, queryIndex, roundResults, allTestResults,
                 thrownCells, pc, searchResults, engineIdx, round, scaleIdx,
                 dimIdx, dimensionScores, scores, engines, judgeCalls,
                 jpc, attempt, httpLog, searchPromises, invoked, cellLog,
                 runConfig>>

NextRun ==
  \/ NoProviders \/ BeginCell \/ SearchSettles \/ SearchesResolved
  \/ ProviderSkipped \/ BeginProvider \/ BeginDimension
  \/ CallLoop \/ HttpOk \/ HttpFail \/ BackoffElapsed
  \/ EndDimension \/ EndRound \/ EndProvider \/ EndCell \/ EndRun

SpecRun == InitRun /\ [][NextRun]_vars

\* every search and every judge call eventually returns or fails, every timer
\* fires, and the event loop runs every continuation that is ready
FairRun == SpecRun /\ WF_vars(NextRun)

-----------------------------------------------------------------------------
(* Properties of the schedule of a batch run *)

\* C21: with every search and judge call eventually returning or failing,
\* runBatchTest eventually returns a final report, whatever judge calls,
\* provider searches and cells fail; no failure leaves it as an exception.
C21_RunReturnsReport ==
  <>[](bpc = "done" /\ finalReport # <<>>)

\* a run of two rounds over two queries in which every cell failed
C21_Witness ==
  /\ bpc = "done"
  /\ finalReport = [total_rounds |-> 2]
  /\ thrownCells = {<<1, 1>>, <<1, 2>>, <<2, 1>>, <<2, 2>>}
  /\ \A r \in 1..2 : \A i \in 1..2 : allTestResults[r].results[i].error

\* the HTTP attempts of the judge call in progress that have not completed
InFlight ==
  Cardinality(Fetches)
    - Cardinality({i \in DOMAIN httpLog : httpLog[i].ev \in {"ok", "fail"}})

\* C22: during a batch run at most one judge call is in flight: an HTTP
\* attempt starts only after the previous attempt has returned or failed and
\* its backoff, if any, has elapsed, and a judge call for the next dimension,
\* scorer, round, provider or cell starts only after the previous call ended.
C22_OneJudgeCallInFlight ==
  /\ InFlight <= 1
  /\ InFlight = 1 <=> jpc = "fetch"
  /\ \A i \in Fetches : i > 1 =>
       /\ i > 2
       /\ httpLog[i - 2].ev = "fail"
       /\ httpLog[i - 1] = Ev("wait", BackoffUnitMs * httpLog[i - 2].k)
  /\ (jpc = "idle" \/ (jpc = "loop" /\ attempt = 1)) => httpLog = <<>>
  /\ jpc # "idle" => pc = "dimension" /\ Pending = {}

\* the second attempt of the second judge call of a provider is in flight,
\* after the first call failed three times
C22_Witness ==
  /\ jpc = "fetch"
  /\ attempt = 2
  /\ invoked = <<<<1, 1, 1>>, <<1, 1, 2>>>>
  /\ dimensionScores[Dimensions[1].name].error
  /\ InFlight = 1

\* the k-th batchScoreDimension invocation of a provider evaluation when the
\* rounds run in increasing order, in each round the binary scorer before
\* the five-point scorer, and each scorer takes the dimensions in list order
InvocationAt(k) ==
  <<(k - 1) \div (Len(Scales) * Len(Dimensions)) + 1,
    (((k - 1) \div Len(Dimensions)) % Len(Scales)) + 1,
    ((k - 1) % Len(Dimensions)) + 1>>

\* the cells executeTests has started, in the order it started them
CellsStarted == SelectSeq(cellLog, LAMBDA e : e.ev = "cell")

\* the k-th cell when the rounds run in increasing order and each round
\* takes the queries in list order
CellAt(k) ==
  CellStart((k - 1) \div Len(queries) + 1, ((k - 1) % Len(queries)) + 1)

\* the round numbers recorded in a list of round entries are 1, 2, ..
RoundsInOrder(entries) == \A k \in DOMAIN entries : entries[k].round = k

\* C23: the execution order is fixed whatever calls fail: in a round the
\* dimensions are scored in list order, the inner rounds run in increasing
\* order and the round numbers recorded per scale are exactly 1..R in that
\* order, the outer rounds run in increasing order 1..M, and in each outer
\* round the queries run in list order.
C23_ExecutionOrder ==
  /\ \A k \in DOMAIN invoked : invoked[k] = InvocationAt(k)
  /\ pc \in {"dimension", "roundEnd", "engineEnd"} =>
       \A s \in ScaleNames : RoundsInOrder(scores[s])
  /\ \A i \in DOMAIN engines : ~engines[i].error =>
       \A s \in ScaleNames :
         /\ RoundsInOrder(engines[i].scores[s])
         /\ Len(engines[i].scores[s]) = repeatTimes
  /\ \A k \in DOMAIN CellsStarted : CellsStarted[k] = CellAt(k)
  /\ \A r \in DOMAIN allTestResults :
       /\ allTestResults[r].round = r
       /\ \A i \in DOMAIN allTestResults[r].results :
            /\ allTestResults[r].results[i].queryIndex = i - 1
            /\ allTestResults[r].results[i].query = queries[i]
            /\ allTestResults[r].results[i].round = r
  /\ bpc = "done" =>
       /\ Len(CellsStarted) = batchRepeatTimes * Len(queries)
       /\ Len(allTestResults) = batchRepeatTimes

\* the last judge call of the last cell of two rounds over two queries, with
\* an error record for the dimension scored before it
C23_Witness ==
  /\ Len(CellsStarted) = 4
  /\ CellsStarted[4] = CellStart(2, 2)
  /\ Len(invoked) = 2 * Len(Scales) * Len(Dimensions)
  /\ invoked[Len(invoked)] = <<2, 2, 2>>
  /\ jpc = "thrown"
  /\ dimensionScores[Dimensions[1].name].error

\* C24: searchWithAllEngines starts the searches of all enabled providers
\* together and resolves only after every one has settled, in whatever order
\* they complete: the result has exactly one entry per enabled provider in
\* provider order, a failing provider gives an error entry and does not
\* reject the call, and no judge call and no write to the cell's evaluation
\* record happens before all searches of the cell have settled.
C24_SearchFanOut ==
  /\ pc = "searching" =>
       /\ DOMAIN searchPromises = DOMAIN enabled
       /\ searchResults = <<>>
       /\ engines = <<>>
       /\ \A i \in DOMAIN judgeCalls : judgeCalls[i] = 0
       /\ jpc = "idle" /\ httpLog = <<>>
  /\ Pending # {} => pc = "searching"
  /\ pc \in {"engine", "dimension", "roundEnd", "engineEnd"} =>
       /\ Len(searchResults) = Len(enabled)
       /\ \A i \in DOMAIN enabled :
            /\ searchResults[i].engine = enabled[i]
            /\ searchResults[i].kind = searchPromises[i]
            /\ searchResults[i].kind \in SearchKinds
  /\ \A i \in DOMAIN enabled :
       (i \in DOMAIN searchPromises /\ searchPromises[i] = "error") =>
         /\ thrownCells = {}
         /\ i \in DOMAIN engines => engines[i] = ErrorEntry(enabled[i])

\* the call resolved with the first provider's results and the second
\* provider's error entry, and the first provider is being scored
C24_Witness ==
  /\ Len(enabled) = 2
  /\ searchResults = <<[engine |-> enabled[1], kind |-> "ok"],
                       [engine |-> enabled[2], kind |-> "error"]>>
  /\ pc = "dimension" /\ engineIdx = 1 /\ jpc = "fetch"

\* C25: for a provider whose search succeeded, each inner round invokes
\* batchScoreDimension exactly once per scorer and configured dimension,
\* 2*D times per round and 2*D*R times per provider evaluation, each with one
\* callAIModel call; a failed dimension, round or provider search is not
\* attempted again, only the HTTP attempts inside callAIModel are repeated.
C25_InvocationCounts ==
  /\ pc \in {"dimension", "roundEnd", "engineEnd"} =>
       /\ judgeCalls[engineIdx] = Len(invoked)
       /\ \A j, k \in DOMAIN invoked : j # k => invoked[j] # invoked[k]
       /\ \A k \in DOMAIN invoked :
            /\ invoked[k][1] \in 1..repeatTimes
            /\ invoked[k][2] \in DOMAIN Scales
            /\ invoked[k][3] \in DOMAIN Dimensions
  /\ (pc = "roundEnd" /\ scaleIdx = Len(Scales)) =>
       Len(invoked) = round * 2 * Len(Dimensions)
  /\ pc = "engineEnd" => Len(invoked) = 2 * Len(Dimensions) * repeatTimes
  /\ \A i \in DOMAIN engines :
       judgeCalls[i] = IF engines[i].error THEN 0
                       ELSE 2 * Len(Dimensions) * repeatTimes
  /\ \A i \in DOMAIN searchResults :
       searchResults[i].kind # "ok" => judgeCalls[i] = 0
  /\ Cardinality(Fetches) <= DefaultMaxRetries
  /\ jpc = "thrown" => Cardinality(Fetches) = DefaultMaxRetries

\* the second round of a provider ends after 8 invocations, the first
\* dimension of its last batchScore failed and the second one was scored
C25_Witness ==
  /\ pc = "roundEnd" /\ scaleIdx = 2 /\ round = 2 /\ repeatTimes = 2
  /\ Len(invoked) = 8
  /\ judgeCalls[engineIdx] = 8
  /\ dimensionScores[Dimensions[1].name].error
  /\ ~dimensionScores[Dimensions[2].name].error

\* the events of the log after its k-th cell start and before the next one
RECURSIVE CellPositions(_)
CellPositions(i) ==
  IF i > Len(cellLog) THEN <<>>
  ELSE (IF cellLog[i].ev = "cell" THEN <<i>> ELSE <<>>) \o CellPositions(i + 1)

DelaysAfter(k) ==
  LET at == CellPositions(1)
      to == IF k < Len(at) THEN at[k + 1] - 1 ELSE Len(cellLog)
  IN  SubSeq(cellLog, at[k] + 1, to)

Waited(q, ms) == \E j \in DOMAIN q : q[j] = Delay(ms)

\* C26: in executeTests the inter-query delay (options.delayMs, default 2000)
\* elapses between the end of any cell and the start of the next, the
\* inter-round delay (options.roundDelayMs, default 5000) elapses between two
\* consecutive outer rounds, whether the earlier cell succeeded or failed,
\* and no delay follows the last cell of the last round.
C26_DelaysBetweenCells ==
  /\ options.delayMs = 0 => DelayMs = 2000
  /\ options.roundDelayMs = 0 => RoundDelayMs = 5000
  /\ \A k \in DOMAIN CellsStarted :
       /\ k < Len(CellsStarted) =>
            /\ Waited(DelaysAfter(k), DelayMs)
            /\ CellsStarted[k].round # CellsStarted[k + 1].round =>
                 Waited(DelaysAfter(k), RoundDelayMs)
       /\ (/\ CellsStarted[k].round = batchRepeatTimes
           /\ CellsStarted[k].index = Len(queries)) => DelaysAfter(k) = <<>>

====
